---- MODULE Spec2Model ----
(***************************************************************************)
(* A model of the lr-wpan-rs IEEE 802.15.4 MAC engine: the request/confirm *)
(* SAP, the event loop of run_mac_engine, the MLME procedures it calls     *)
(* (reset, set, start, scan, associate) and the ReqResp mailbox.           *)
(*                                                                         *)
(* Time is counted in PHY symbols.  The delay primitive works in whole     *)
(* milliseconds; SymbolsPerMilli is the length of a millisecond in symbols *)
(* for the modelled PHY.                                                   *)
(***************************************************************************)
EXTENDS Integers, Sequences, FiniteSets, TLC

(***************************************************************************)
(* Bounds of the model                                                     *)
(***************************************************************************)
\* requests the upper layer submits in one run
MaxRequests == 2
\* capacity of ScanConfirm.pan_descriptor_list in the model
\* (ArrayVec<PanDescriptor, 16> in the source)
MaxPanDescriptors == 2
\* the PHY clock is not advanced by a blocking operation beyond this instant
MaxTime == 40000000
\* symbols in one millisecond for the modelled PHY
\* (TICKS_PER_MILLI / symbol_period)
SymbolsPerMilli == 1024
\* symbols a WaitForResponse send waits for an acknowledgement
\* (macAckWaitDuration, which depends on the PHY's SHR and symbol rate)
AckWaitSymbols == 54
\* symbols of macMaxFrameTotalWaitTime for the modelled PHY
MaxFrameTotalWaitSymbols == 1986
\* symbols of phySHRDuration and of phyMaxFrameDuration for the modelled PHY
PhyShrDuration == 10
PhyMaxFrameDuration == 266
\* symbols the upper layer may take to answer a BeaconNotifyIndication
UpperLayerDelay == 700
\* requests the ReqResp mailbox model issues
RRMaxRequests == 5

(***************************************************************************)
(* Program constants                                                       *)
(***************************************************************************)
UNIT_BACKOFF_PERIOD == 20
BASE_SLOT_DURATION == 60
NUM_SUPERFRAME_SLOTS == 16
BASE_SUPERFRAME_DURATION == BASE_SLOT_DURATION * NUM_SUPERFRAME_SLOTS
TURNAROUND_TIME == 12
CHANNEL_SIZE == 4
INDIRECT_INDICATION_COLLECTION_SIZE == 4
SCHEDULED_BROADCASTS_CAPACITY == 4
DATA_REQUESTS_CAPACITY == 1
\* PanId::broadcast() and ShortAddress::BROADCAST
BROADCAST == 65535
\* BeaconOrder::OnDemand and SuperframeOrder::Inactive
ON_DEMAND == 15
\* default of macResponseWaitTime
RESPONSE_WAIT_TIME == 32
\* capacity of the mailbox of the ReqResp tests (ReqResp::<_, _, 4>)
RR_N == 4
ANTENNA_CAPACITY == 16

\* requests the upper layer lets wait in the request channel at a time
MaxQueued == 1
\* frames the radio delivers to the engine in one run
MaxFrames == 2
\* broadcasts handed to the scheduler of the scheduler model
MaxScheduled == 5
\* failed sends of a periodic beacon between two beacons that go out
MaxBeaconFaults == 1
MaxNodes == 3

NoScan == [active |-> FALSE]
NoFrame == [type |-> "None", ack_request |-> FALSE, result |-> "None"]

VARIABLES
    now,                  \* phy.get_instant(), in symbols
    loop_start,           \* current_time read when the event loop last started to wait
    engine,               \* "running", "blocked_indication" or "panicked"
    mac_pib,              \* MacPib
    phy_channel,          \* PhyPib.current_channel
    phy_rx,               \* the receiver of the PHY is on
    mac_state,            \* MacState
    indirect_indications, \* IndirectIndicationCollection: future and expire_time per slot
    requests,             \* request_confirm_channel.requests
    next_id,              \* request_confirm_channel.next_id
    confirms,             \* per request id, the confirms delivered to its waiter
    phy_sends,            \* frames handed to phy.send by the last call of handle_radio_event
    last_rx,              \* the frame the last call of handle_radio_event processed, and the result of sending the reply
    scan_log,             \* observation of the scan last accepted
    rx_count,             \* frames the radio has delivered
    beacon_log,           \* observation of the beacons the engine sent
    assoc_log,            \* per request id, observation of its association
    rr,                   \* the ReqResp mailbox of the mailbox model
    sched,                \* the MessageScheduler of the scheduler model
    aether                \* the Aether of the simulated radios and its nodes

vars == <<now, loop_start, engine, mac_pib, phy_channel, phy_rx, mac_state,
          indirect_indications, requests, next_id, confirms, phy_sends,
          last_rx, scan_log, rx_count, beacon_log, assoc_log, rr, sched,
          aether>>

\* the components that are modelled on their own
component_vars == <<rr, sched, aether>>

engine_vars == <<now, loop_start, engine, mac_pib, phy_channel, phy_rx,
                 mac_state, indirect_indications, requests, next_id, confirms,
                 phy_sends, last_rx, scan_log, rx_count, beacon_log,
                 assoc_log>>

(***************************************************************************)
(* Time                                                                    *)
(***************************************************************************)
Min(a, b) == IF a < b THEN a ELSE b
Max(a, b) == IF a > b THEN a ELSE b

\* Duration::millis of a non-negative duration, as a duration again
\* (Duration::from_millis(duration.millis()))
FloorMs(d) == (d \div SymbolsPerMilli) * SymbolsPerMilli

\* DelayNsExt::delay_duration: left_over, the whole milliseconds of the
\* duration minus the duration, is positive
left_over(d) == FloorMs(d) - d > 0

\* DelayNsExt::delay_duration: how long the delay lasts, one millisecond
\* more than the whole milliseconds of the duration when left_over holds
\* (the chunks of u32::MAX - 1 milliseconds add up to the same)
delay_duration(d) ==
    IF d < 0 THEN 0
    ELSE FloorMs(d) + (IF left_over(d) THEN SymbolsPerMilli ELSE 0)

\* the scan duration without the limit of 14 on the exponent
ScanDuration_unclamped(scan_duration) ==
    BASE_SUPERFRAME_DURATION * (2 ^ scan_duration + 1)

\* the time of one channel scan, in symbols
ScanDuration(scan_duration) ==
    BASE_SUPERFRAME_DURATION * (2 ^ Min(scan_duration, 14) + 1)

(***************************************************************************)
(* The upper layer's requests and the frames on the air                    *)
(***************************************************************************)
ScanShapes ==
    { [scan_channels |-> <<11>>, scan_duration |-> 15],
      [scan_channels |-> <<11, 12>>, scan_duration |-> 0] }

ScanRequests ==
    { [kind |-> "Scan", scan_type |-> t, scan_channels |-> s.scan_channels,
       scan_duration |-> s.scan_duration] :
         t \in {"Active", "Passive"}, s \in ScanShapes }

\* a SetRequest: value_of names the attribute whose variant of PibValue
\* the value is, "None" for PibValue::None
SetRequests ==
    { [kind |-> "Set", pib_attribute |-> "macPANId", value_of |-> "macPANId",
       value |-> 1],
      [kind |-> "Set", pib_attribute |-> "macShortAddress",
       value_of |-> "macShortAddress", value |-> 1],
      [kind |-> "Set", pib_attribute |-> "macAutoRequest",
       value_of |-> "macAutoRequest", value |-> 1],
      [kind |-> "Set", pib_attribute |-> "unknown", value_of |-> "None",
       value |-> 0] }

\* the attributes PhyPibWrite::try_set answers with ReadOnly
PhyReadOnly ==
    {"phyChannelsSupported", "phyMaxFrameDuration", "phySHRDuration",
     "phySymbolsPerOctet", "phyPreambleSymbolLength",
     "phyUWBDataRatesSupported", "phyCSSLowDataRateSupported",
     "phyUWBCoUSupported", "phyUWBCSSupported", "phyUWBLCPSupported",
     "phyRanging", "phyRangingCrystalOffset", "phyRangingDPS"}

\* the attributes MacPibWrite::try_set answers with ReadOnly
MacReadOnly ==
    {"macExtendedAddress", "macAckWaitDuration", "macBeaconTxTime",
     "macLIFSPeriod", "macSIFSPeriod", "macRangingSupported",
     "macSuperframeOrder", "macSyncSymbolOffset", "macTimestampSupported"}

\* the attributes whose value MacPibWrite::set checks against a range
MacRanged ==
    {"macMaxBE", "macMaxCSMABackoffs", "macMaxFrameRetries", "macMinBE",
     "macResponseWaitTime"}

\* the writable attributes PhyPibWrite::set has no arm for
PhyUnreachable ==
    {"phyUWBScanBinsPerChannel", "phyUWBInsertedPreambleInterval",
     "phyTXRMARKEROffset", "phyRXRMARKEROffset", "phyRFRAMEProcessingTime",
     "phyCCADuration"}

\* the attributes MacPibWrite::set takes and does not store
MacIgnored == {"macBattLifeExtPeriods", "macMaxFrameTotalWaitTime"}

\* the attributes of the model whose value set stores in the PIB
Stored ==
    {"phyCurrentChannel", "macPANId", "macShortAddress", "macAutoRequest",
     "macBeaconOrder", "macBSN", "macCoordShortAddress"}

\* attributes neither PIB knows
UnknownAttributes == {"phyDoesNotExist", "macDoesNotExist"}

\* the values tried for an attribute: the ends of its range and their
\* neighbours
SetValues(attribute) ==
    CASE attribute = "macMaxBE" -> {2, 3, 8, 9}
      [] attribute = "macMaxCSMABackoffs" -> {0, 5, 6}
      [] attribute = "macMaxFrameRetries" -> {0, 7, 8}
      [] attribute = "macMinBE" -> {0, 3, 4, 8, 9}
      [] attribute = "macResponseWaitTime" -> {1, 2, 64, 65}
      [] attribute = "macBeaconOrder" -> {14, ON_DEMAND}
      [] attribute = "macBattLifeExtPeriods" -> {5, 6, 41}
      [] attribute = "phyCurrentChannel" -> {11, 12}
      [] OTHER -> {0, 1}

\* a read-only or unknown attribute comes with a value of its own variant
\* or with PibValue::None, an attribute with a range with a value of its own
\* variant
SetAttributeRequests ==
    UNION { { [kind |-> "Set", pib_attribute |-> a, value_of |-> w, value |-> v] :
                w \in IF a \in MacRanged THEN {a} ELSE {a, "None"},
                v \in SetValues(a) } :
            a \in PhyReadOnly \cup MacReadOnly \cup MacRanged
                    \cup UnknownAttributes }

\* the attributes the upper layer sets and gets in the PIB model
PibAttributes == Stored \cup {"macMaxBE", "macMinBE"} \cup MacIgnored

PibSetRequests ==
    UNION { { [kind |-> "Set", pib_attribute |-> a, value_of |-> a, value |-> v] :
                v \in SetValues(a) } :
            a \in PibAttributes \cup {"phyCCADuration"} }

GetRequests ==
    { [kind |-> "Get", pib_attribute |-> a] :
        a \in PibAttributes \cup {"macDoesNotExist"} }

StartRequests ==
    { [kind |-> "Start", pan_id |-> 2, channel_number |-> 11,
       beacon_order |-> ON_DEMAND, superframe_order |-> ON_DEMAND,
       start_time |-> 0, pan_coordinator |-> TRUE, coord_realignment |-> r] :
         r \in BOOLEAN }

\* what config.rng returns for macBSN in a reset
RandomBytes == {0, 129}

ResetRequests ==
    { [kind |-> "Reset", set_default_pib |-> b] : b \in BOOLEAN }

AssociateRequests ==
    { [kind |-> "Associate", coord_pan_id |-> 1, coord_short_address |-> 0,
       channel_number |-> 13] }

\* the requests handle_request answers with todo!()
UnimplementedRequests == { [kind |-> "Poll"] }

RequestValues ==
    ScanRequests \cup SetRequests \cup StartRequests \cup ResetRequests
        \cup AssociateRequests \cup UnimplementedRequests

\* results of a PHY operation; "ErrPib" is an error of update_phy_pib or
\* get_instant, "NoAck" a WaitForResponse send that got no acknowledgement
PhyOutcomes == {"Success", "ChannelAccessFailure", "Err", "ErrPib", "NoAck"}

Frames ==
    { [type |-> "Beacon", ack_request |-> FALSE, coord |-> c] : c \in {1, 2} }
    \cup { [type |-> t, ack_request |-> a, coord |-> 0] :
              t \in {"BeaconRequest", "DataRequest", "AssociationRequest", "Data"},
              a \in BOOLEAN }
    \cup { [type |-> "Garbage", ack_request |-> FALSE, coord |-> 0] }

(***************************************************************************)
(* ReqResp::respond as the engine uses it: the confirm reaches the waiter  *)
(* of the request's id                                                     *)
(***************************************************************************)
Respond(cf, id, confirm) == [cf EXCEPT ![id] = Append(@, confirm)]

RECURSIVE Deliver(_, _)
Deliver(cf, out) ==
    IF out = <<>> THEN cf
    ELSE Deliver(Respond(cf, Head(out).id, Head(out).confirm), Tail(out))

\* what a procedure leaves behind: the PIB, the state, the confirms it
\* issued, and whether it panicked
Effect(pib, ms, out) ==
    [mac_pib |-> pib, mac_state |-> ms, out |-> out, panic |-> FALSE]

Panic(pib, ms) ==
    [mac_pib |-> pib, mac_state |-> ms, out |-> <<>>, panic |-> TRUE]

Confirm(responder, c) == <<[id |-> responder.id, confirm |-> c]>>

(***************************************************************************)
(* MacPib and MacState                                                     *)
(***************************************************************************)
\* MacPib::dummy_new
dummy_new ==
    [pan_id |-> BROADCAST, short_address |-> BROADCAST, auto_request |-> FALSE,
     beacon_order |-> ON_DEMAND, superframe_order |-> ON_DEMAND,
     response_wait_time |-> 0, bsn |-> 0, beacon_tx_time |-> 0,
     coord_short_address |-> BROADCAST, max_be |-> 0, max_csma_backoffs |-> 0,
     max_frame_retries |-> 0, min_be |-> 0]

\* a reset that writes the PIB of MacPib::dummy_new
ResetMacPib_dummy(rng) == dummy_new

\* the MacPib process_reset_request writes
ResetMacPib(rng) ==
    [pan_id |-> BROADCAST, short_address |-> BROADCAST, auto_request |-> TRUE,
     beacon_order |-> ON_DEMAND, superframe_order |-> ON_DEMAND,
     response_wait_time |-> RESPONSE_WAIT_TIME, bsn |-> rng,
     beacon_tx_time |-> 0, coord_short_address |-> BROADCAST, max_be |-> 5,
     max_csma_backoffs |-> 4, max_frame_retries |-> 3, min_be |-> 3]

\* a sequence number that does not wrap
increment_unwrapped(value) == value + 1

\* SequenceNumber::increment on the u8: the new value, which is returned
increment(value) == (value + 1) % 256

\* a beacon interval that ignores macBeaconOrder
beacon_interval_base(pib) ==
    IF pib.beacon_order = ON_DEMAND THEN 0 ELSE BASE_SUPERFRAME_DURATION

\* MacPibWrite::beacon_interval, with 0 for None
beacon_interval(pib) ==
    IF pib.beacon_order = ON_DEMAND THEN 0
    ELSE BASE_SUPERFRAME_DURATION * 2 ^ pib.beacon_order

\* MacPib::superframe_duration, with 0 for None
superframe_duration(pib) ==
    IF pib.superframe_order = ON_DEMAND THEN 0
    ELSE BASE_SUPERFRAME_DURATION * 2 ^ pib.superframe_order

\* MacState::new
NewMacState ==
    [scheduled_broadcasts |-> <<>>, data_requests |-> <<>>, pending_data |-> 0,
     beacon_mode |-> "Off", is_pan_coordinator |-> FALSE,
     own_superframe_active |-> FALSE, current_scan_process |-> NoScan]

(***************************************************************************)
(* mlme_scan.rs                                                            *)
(***************************************************************************)
\* the ScanConfirm of a request that was not started
EarlyScanConfirm(status, request) ==
    [status |-> status, scan_type |-> request.scan_type,
     unscanned_channels |-> <<>>, pan_descriptor_list |-> <<>>,
     result_list_size |-> 0]

\* a scan request that never sees the scan in progress
scan_in_progress_never(ms) == FALSE

\* only one scan can be in progress at a time
scan_in_progress(ms) == ms.current_scan_process.active

process_scan_request(responder, o, pib, ms, current_time) ==
    LET request == responder.request IN
    IF o = "ErrPib"
    THEN Effect(pib, ms, Confirm(responder, EarlyScanConfirm("PhyError", request)))
    ELSE IF scan_in_progress(ms)
    THEN Effect(pib, ms, Confirm(responder, EarlyScanConfirm("ScanInProgress", request)))
    ELSE Effect(
        IF request.scan_type \in {"Passive", "Active"}
        THEN [pib EXCEPT !.pan_id = BROADCAST] ELSE pib,
        [ms EXCEPT !.current_scan_process =
            [active |-> TRUE,
             responder |-> responder,
             end_time |-> current_time,
             results |-> [status |-> "Success",
                          scan_type |-> request.scan_type,
                          unscanned_channels |-> request.scan_channels,
                          pan_descriptor_list |-> <<>>,
                          result_list_size |-> 0],
             original_mac_pan_id |-> pib.pan_id,
             skipped_channels |-> 0,
             beacons_found |-> FALSE]],
        <<>>)

\* ScanProcess::wait_for_next_action, after the delay
wait_for_next_action(scan) ==
    IF scan.skipped_channels < Len(scan.results.unscanned_channels)
    THEN [kind |-> "StartScan",
          channel |-> scan.results.unscanned_channels[scan.skipped_channels + 1],
          scan_type |-> scan.results.scan_type]
    ELSE [kind |-> "Finish", channel |-> 0, scan_type |-> scan.results.scan_type]

\* removal of the first element whatever the index
Remove_first(s, index) == Tail(s)

\* ArrayVec::remove(index), index counted from 0
Remove(s, index) == SubSeq(s, 1, index) \o SubSeq(s, index + 2, Len(s))

register_action_as_executed(scan, action) ==
    LET timed == [scan EXCEPT !.end_time =
                    @ + ScanDuration(scan.responder.request.scan_duration)] IN
    IF action.kind = "StartScan"
    THEN [timed EXCEPT !.results.unscanned_channels =
                          Remove(@, scan.skipped_channels)]
    ELSE timed

\* current_time is -1 when get_instant failed
register_action_as_failed(scan, current_time) ==
    [scan EXCEPT !.skipped_channels = @ + 1,
                 !.end_time = IF current_time >= 0 THEN current_time ELSE @]

\* a beacon that is never taken for a duplicate
is_duplicate_never(pan_descriptor_list, coord, channel) == FALSE

\* the duplicate test of register_received_beacon
is_duplicate(pan_descriptor_list, coord, channel) ==
    \E i \in 1..Len(pan_descriptor_list) :
        /\ pan_descriptor_list[i].coord_address = coord
        /\ pan_descriptor_list[i].channel_number = channel

\* beacons stored whatever macAutoRequest is
stores_beacons_always(pib) == TRUE

\* register_received_beacon stores the descriptor when macAutoRequest is
\* set, and indicates the beacon to the upper layer when it is not
stores_beacons(pib) == pib.auto_request

\* the part of ScanProcess::register_received_beacon before the indication
register_received_beacon(scan, coord, channel, pib) ==
    LET found == [scan EXCEPT !.beacons_found = TRUE]
        descr == [coord_address |-> coord, channel_number |-> channel]
        duplicate == is_duplicate(scan.results.pan_descriptor_list, coord, channel)
        pushed == [found EXCEPT !.results.pan_descriptor_list = Append(@, descr),
                                !.results.result_list_size = @ + 1]
    IN
    IF ~stores_beacons(pib) THEN found
    ELSE IF duplicate THEN found
    ELSE IF Len(pushed.results.pan_descriptor_list) = MaxPanDescriptors
    THEN [pushed EXCEPT !.skipped_channels = Len(scan.results.unscanned_channels),
                        !.end_time = 0,
                        !.results.status = "LimitReached"]
    ELSE pushed

\* the PAN id left as the scan has it
restored_pan_id_current(scan, pib) == pib.pan_id

\* the PAN id abort_scan writes back
restored_pan_id(scan, pib) == scan.original_mac_pan_id

\* the status passed on without the NoBeacon rule
final_status_as_given(scan, status) == status

\* the status abort_scan reports when it is called with status
final_status(scan, status) ==
    IF /\ status = "Success"
       /\ scan.results.unscanned_channels
              # scan.responder.request.scan_channels
       /\ ~scan.beacons_found
    THEN "NoBeacon" ELSE status

abort_scan(scan, pib, ms, status) ==
    Effect([pib EXCEPT !.pan_id = restored_pan_id(scan, pib)],
           ms,
           Confirm(scan.responder,
                   [scan.results EXCEPT !.status = final_status(scan, status)]))

finish_scan(scan, pib, ms) == abort_scan(scan, pib, ms, "Success")

(***************************************************************************)
(* mlme_set.rs, mlme_reset.rs, mlme_start.rs, mlme_associate.rs            *)
(***************************************************************************)
\* a PIB without read-only attributes
read_only_none(attribute) == FALSE

\* PhyPibWrite::try_set and MacPibWrite::try_set: the arms that answer
\* ReadOnly whatever the value is
read_only(attribute) == attribute \in PhyReadOnly \cup MacReadOnly

\* a set that takes every value
in_range_any(attribute, value, pib) == TRUE

\* MacPibWrite::set: the guards of the arms that store a value
in_range(attribute, value, pib) ==
    CASE attribute = "macMaxBE" -> value \in 3..8
      [] attribute = "macMaxCSMABackoffs" -> value \in 0..5
      [] attribute = "macMaxFrameRetries" -> value \in 0..7
      [] attribute = "macMinBE" -> value \in 0..pib.max_be
      [] attribute = "macResponseWaitTime" -> value \in 2..64
      [] attribute = "macBattLifeExtPeriods" -> value \in 6..41
      [] OTHER -> TRUE

\* MacPibWrite::set: the assignment of the arm; the arms of
\* macBattLifeExtPeriods and macMaxFrameTotalWaitTime assign nothing
MacPibWrite_set(attribute, value, pib) ==
    CASE attribute = "macPANId" -> [pib EXCEPT !.pan_id = value]
      [] attribute = "macShortAddress" -> [pib EXCEPT !.short_address = value]
      [] attribute = "macAutoRequest" -> [pib EXCEPT !.auto_request = (value = 1)]
      [] attribute = "macBeaconOrder" -> [pib EXCEPT !.beacon_order = value]
      [] attribute = "macBSN" -> [pib EXCEPT !.bsn = value]
      [] attribute = "macCoordShortAddress" ->
            [pib EXCEPT !.coord_short_address = value]
      [] attribute \in MacIgnored -> pib
      [] attribute = "macMaxBE" -> [pib EXCEPT !.max_be = value]
      [] attribute = "macMaxCSMABackoffs" ->
            [pib EXCEPT !.max_csma_backoffs = value]
      [] attribute = "macMaxFrameRetries" ->
            [pib EXCEPT !.max_frame_retries = value]
      [] attribute = "macMinBE" -> [pib EXCEPT !.min_be = value]
      [] attribute = "macResponseWaitTime" ->
            [pib EXCEPT !.response_wait_time = value]

\* set_pib_value once update_phy_pib has succeeded: try_set of the PHY PIB
\* for a name that starts with "phy", try_set of the MAC PIB for one that
\* starts with "mac", UnsupportedAttribute when neither knows the name.
\* PhyPibWrite::set reaches unreachable!() for the attributes it has no arm for.
set_pib_value(request, pib, channel) ==
    LET attribute == request.pib_attribute
        writable == Stored \cup MacRanged \cup MacIgnored \cup PhyUnreachable
        refused(status) ==
            [mac_pib |-> pib, phy_channel |-> channel, status |-> status,
             panic |-> FALSE]
    IN
    IF read_only(attribute) THEN refused("ReadOnly")
    ELSE IF attribute \notin writable THEN refused("UnsupportedAttribute")
    ELSE IF request.value_of # attribute THEN refused("InvalidParameter")
    ELSE IF attribute \in PhyUnreachable
    THEN [refused("None") EXCEPT !.panic = TRUE]
    ELSE IF attribute = "phyCurrentChannel"
    THEN [refused("Success") EXCEPT !.phy_channel = request.value]
    ELSE IF ~in_range(attribute, request.value, pib)
    THEN refused("InvalidParameter")
    ELSE [refused("Success") EXCEPT
            !.mac_pib = MacPibWrite_set(attribute, request.value, pib)]

process_set_request(responder, o, pib, ms, channel) ==
    LET pib_attribute == responder.request.pib_attribute IN
    IF o = "ErrPib"
    THEN Effect(pib, ms, Confirm(responder, [status |-> "PhyError",
                                             pib_attribute |-> pib_attribute]))
    ELSE LET r == set_pib_value(responder.request, pib, channel) IN
         IF r.panic THEN Panic(pib, ms)
         ELSE Effect(r.mac_pib, ms,
                     Confirm(responder, [status |-> r.status,
                                         pib_attribute |-> pib_attribute]))

\* MacPib::batt_life_ext_periods, for a channel page whose cw0 is 2
batt_life_ext_periods(shr_duration) ==
    3 + 2 + (shr_duration + UNIT_BACKOFF_PERIOD \div 2) \div UNIT_BACKOFF_PERIOD

\* max_frame_total_wait_time: max_be - min_be on the u8 overflows
subtract_overflows(pib) == pib.min_be > pib.max_be

RECURSIVE backoff_sum(_, _)
\* max_frame_total_wait_time: the sum of 1 << (min_be + k) for k in 0..m
backoff_sum(min_be, m) ==
    IF m = 0 THEN 0 ELSE backoff_sum(min_be, m - 1) + 2 ^ (min_be + m - 1)

\* MacPib::max_frame_total_wait_time, with the wrapping subtraction of a
\* build without overflow checks
max_frame_total_wait_time(pib, max_frame_duration) ==
    LET m == Min((pib.max_be - pib.min_be) % 256, pib.max_csma_backoffs) IN
    ((pib.max_csma_backoffs - m) * (2 ^ pib.max_be - 1)
        + backoff_sum(pib.min_be, m)) * UNIT_BACKOFF_PERIOD
        + max_frame_duration

\* a get that answers with the number of backoff periods whatever is asked
get_pib_value_fixed(attribute, pib, channel) ==
    [status |-> "Success", value |-> batt_life_ext_periods(PhyShrDuration)]

\* get_pib_value: PhyPib::get, then MacPib::get, UnsupportedAttribute when
\* neither knows the name (value -1 is PibValue::None)
get_pib_value(attribute, pib, channel) ==
    LET found(value) == [status |-> "Success", value |-> value] IN
    CASE attribute = "phyCurrentChannel" -> found(channel)
      [] attribute = "macPANId" -> found(pib.pan_id)
      [] attribute = "macShortAddress" -> found(pib.short_address)
      [] attribute = "macAutoRequest" ->
            found(IF pib.auto_request THEN 1 ELSE 0)
      [] attribute = "macBeaconOrder" -> found(pib.beacon_order)
      [] attribute = "macBSN" -> found(pib.bsn)
      [] attribute = "macCoordShortAddress" -> found(pib.coord_short_address)
      [] attribute = "macMaxBE" -> found(pib.max_be)
      [] attribute = "macMaxCSMABackoffs" -> found(pib.max_csma_backoffs)
      [] attribute = "macMaxFrameRetries" -> found(pib.max_frame_retries)
      [] attribute = "macMinBE" -> found(pib.min_be)
      [] attribute = "macResponseWaitTime" -> found(pib.response_wait_time)
      [] attribute = "macBeaconTxTime" -> found(pib.beacon_tx_time)
      [] attribute = "macSuperframeOrder" -> found(pib.superframe_order)
      [] attribute = "macBattLifeExtPeriods" ->
            found(batt_life_ext_periods(PhyShrDuration))
      [] attribute = "macMaxFrameTotalWaitTime" ->
            found(max_frame_total_wait_time(pib, PhyMaxFrameDuration))
      [] OTHER -> [status |-> "UnsupportedAttribute", value |-> -1]

\* process_get_request; in a build with overflow checks the subtraction of
\* max_frame_total_wait_time panics when it overflows
process_get_request(responder, overflow_checks, pib, ms, channel) ==
    LET pib_attribute == responder.request.pib_attribute
        r == get_pib_value(pib_attribute, pib, channel)
    IN
    IF /\ pib_attribute = "macMaxFrameTotalWaitTime"
       /\ subtract_overflows(pib)
       /\ overflow_checks
    THEN Panic(pib, ms)
    ELSE Effect(pib, ms,
                Confirm(responder, [status |-> r.status,
                                    pib_attribute |-> pib_attribute,
                                    value |-> r.value]))

process_reset_request(responder, o, rng, pib, ms) ==
    IF responder.request.set_default_pib /\ o = "Err"
    THEN Effect(pib, ms, Confirm(responder, [status |-> "PhyError"]))
    ELSE Effect(IF responder.request.set_default_pib
                THEN ResetMacPib(rng) ELSE pib,
                NewMacState,
                Confirm(responder, [status |-> "Success"]))

update_superframe_config(pib, request) ==
    [pib EXCEPT !.beacon_order = request.beacon_order,
                !.superframe_order =
                    IF request.beacon_order = ON_DEMAND
                    THEN ON_DEMAND ELSE request.superframe_order,
                !.pan_id = request.pan_id]

apply_changes(responder, o, pib, ms) ==
    LET request == responder.request IN
    IF request.pan_coordinator \/ request.start_time = 0
            \/ request.beacon_order = ON_DEMAND
    THEN IF o = "ErrPib"
         THEN Effect(update_superframe_config(pib, request), ms,
                     Confirm(responder, [status |-> "PhyError"]))
         ELSE Effect(update_superframe_config(pib, request),
                     [ms EXCEPT !.is_pan_coordinator = request.pan_coordinator,
                                !.beacon_mode =
                                    IF request.beacon_order # ON_DEMAND
                                    THEN "OnAutonomous" ELSE "Off"],
                     Confirm(responder, [status |-> "Success"]))
    ELSE \* coordinator_beacon_tracked is never set
         Effect(pib, ms, Confirm(responder, [status |-> "TrackingOff"]))

\* MessageScheduler::schedule_broadcast_priority
schedule_broadcast_priority(pib, ms, callback) ==
    IF Len(ms.scheduled_broadcasts) >= SCHEDULED_BROADCASTS_CAPACITY
    THEN Panic(pib, ms)
    ELSE Effect(pib,
                [ms EXCEPT !.scheduled_broadcasts = <<callback>> \o @],
                <<>>)

\* MessageScheduler::schedule_broadcast: the same push to the front
schedule_broadcast(pib, ms, callback) ==
    IF Len(ms.scheduled_broadcasts) >= SCHEDULED_BROADCASTS_CAPACITY
    THEN Panic(pib, ms)
    ELSE Effect(pib,
                [ms EXCEPT !.scheduled_broadcasts = <<callback>> \o @],
                <<>>)

\* MessageScheduler::take_scheduled_broadcast, on a queue that is not empty
take_scheduled_broadcast(ms) ==
    [message |-> Head(ms.scheduled_broadcasts),
     mac_state |-> [ms EXCEPT !.scheduled_broadcasts = Tail(@)]]

\* a start procedure that never waits for the coordinator realignment
process_start_request_immediate(responder, o, pib, ms) ==
    IF pib.short_address = BROADCAST
    THEN Effect(pib, ms, Confirm(responder, [status |-> "NoShortAddress"]))
    ELSE apply_changes(responder, o, pib, ms)

process_start_request(responder, o, pib, ms) ==
    IF pib.short_address = BROADCAST
    THEN Effect(pib, ms, Confirm(responder, [status |-> "NoShortAddress"]))
    ELSE IF responder.request.coord_realignment
    THEN schedule_broadcast_priority(pib, ms, responder)
    ELSE apply_changes(responder, o, pib, ms)

coord_realignment_sent_callback(responder, send_result, o, pib, ms) ==
    IF send_result = "Success"
    THEN apply_changes(responder, o, pib, ms)
    ELSE Effect(pib, ms, Confirm(responder, [status |-> "ChannelAccessFailure"]))

\* MessageScheduler::schedule_data_request
schedule_data_request(pib, ms, data_request) ==
    IF Len(ms.data_requests) >= DATA_REQUESTS_CAPACITY
    THEN Panic(pib, ms)
    ELSE Effect(pib, [ms EXCEPT !.data_requests = Append(@, data_request)], <<>>)

\* a data request that is due as soon as the acknowledgement has arrived
data_request_time_at_ack(ack_timestamp, pib) == ack_timestamp

\* process_associate_request: when the data request is to be sent
data_request_time(ack_timestamp, pib) ==
    ack_timestamp + BASE_SUPERFRAME_DURATION * pib.response_wait_time

\* a device that is never taken to be associated
already_associated_never(pib) == FALSE

\* process_associate_request: the device is associated already
already_associated(pib) == pib.pan_id # BROADCAST

\* ack_time is the timestamp of the acknowledgement when o = "Success"
process_associate_request(responder, o, pib, ms, ack_time) ==
    LET request == responder.request
        joined == [pib EXCEPT !.pan_id = request.coord_pan_id,
                              !.coord_short_address =
                                  request.coord_short_address]
        failed(status) == [status |-> status, assoc_short_address |-> BROADCAST]
    IN
    IF already_associated(pib)
    THEN Effect(pib, ms, Confirm(responder, failed("AlreadyAssociated")))
    ELSE IF o = "ErrPib"
    THEN Effect(pib, ms, Confirm(responder, failed("PhyError")))
    ELSE IF o = "ChannelAccessFailure"
    THEN Effect(joined, ms, Confirm(responder, failed("ChannelAccessFailure")))
    ELSE IF o = "Err"
    THEN Effect(joined, ms, Confirm(responder, failed("PhyError")))
    ELSE IF o = "NoAck"
    THEN Effect(joined, ms, Confirm(responder, failed("NoAck")))
    ELSE schedule_data_request(joined, ms,
            [timestamp |-> data_request_time(ack_time, pib),
             callback |-> responder])

\* a coordinator that is taken to have data whatever its acknowledgement says
has_response_always(frame_pending) == TRUE

\* perform_data_request: the acknowledgement says the coordinator has data
has_response(frame_pending) == frame_pending

\* how the listen for the AssociationResponse ends: with the response, with
\* the end of the listen window, or with an error of start_receive or of
\* wait/process
ListenOutcomes == {"Response", "Timeout", "ErrStart", "ErrWait"}

\* the short address the coordinator hands out
AssignedShortAddress == 7

NoConfirm == [status |-> "None"]

\* perform_data_request: what it hands to run_associate, NoConfirm where it
\* panics. o is the result of sending the data request, frame_pending the
\* bit of its acknowledgement, l how the listen ends and stop the result of
\* stop_receive
perform_data_request(o, frame_pending, l, stop) ==
    LET failed(status) == [status |-> status, assoc_short_address |-> BROADCAST]
    IN
    IF o = "ChannelAccessFailure" THEN failed("ChannelAccessFailure")
    ELSE IF o \in {"Err", "ErrPib"} THEN failed("PhyError")
    ELSE IF o = "NoAck" THEN NoConfirm
    ELSE IF ~has_response(frame_pending) THEN failed("NoData")
    ELSE IF l = "ErrStart" THEN failed("PhyError")
    ELSE IF stop = "Err" THEN failed("PhyError")
    ELSE IF l = "Response"
    THEN [status |-> "Success", assoc_short_address |-> AssignedShortAddress]
    ELSE IF l = "ErrWait" THEN failed("PhyError")
    ELSE failed("NoData")

(***************************************************************************)
(* The state after construction                                            *)
(***************************************************************************)
\* the observation of a scan: the request and its id, when it was accepted,
\* macPanId before it, the scan actions performed (when, when due, and how
\* they ended), the beacons received, whether the PAN-descriptor list became
\* full, the beacons indicated to the upper layer, the values macAutoRequest
\* had when the beacons arrived, and whether the scan has issued its confirm
NoScanLog ==
    [id |-> -1, request |-> [kind |-> "None"], accepted_at |-> 0,
     pan_before |-> BROADCAST, actions |-> <<>>, beacons |-> 0,
     limit |-> FALSE, notified |-> 0, auto_request |-> {}, done |-> FALSE]

\* the observation of an association: the result of sending the
\* AssociationRequest (None when none was sent), the timestamp of its
\* acknowledgement and macResponseWaitTime at the time, then when the engine
\* got to the data request, the send time it gave the PHY and when the
\* DataRequest went out, the result of that send, the frame-pending bit of
\* its acknowledgement, how the listen ended and the result of stop_receive
NoAssocLog ==
    [request_result |-> "None", ack_at |-> -1,
     response_wait_time |-> -1, reached_at |-> -1, requested_at |-> -1,
     sent_at |-> -1, data_result |-> "None", frame_pending |-> FALSE,
     listen |-> "None", stop |-> "None"]

\* a beacon handed to the PHY: its sequence number, when it was to go out,
\* whether with CSMA, macBeaconOrder at the time and whether it went out
NoBeacon ==
    [seq |-> -1, at |-> -1, csma |-> FALSE, beacon_order |-> -1,
     sent |-> FALSE]

\* the observation of the beacons: the last two that went out, the beacon
\* handed to the PHY last, and the sends that failed and the superframe
\* starts that were missed between the last two and since the last one
NoBeaconLog ==
    [prev |-> NoBeacon, last |-> NoBeacon, attempt |-> NoBeacon,
     between |-> [failed |-> 0, missed |-> 0], failed |-> 0, missed |-> 0]

RECURSIVE LogBeacons(_, _)
LogBeacons(log, beacons) ==
    IF beacons = <<>> THEN log
    ELSE LET b == Head(beacons) IN
         LogBeacons(
            IF b.sent
            THEN [prev |-> log.last, last |-> b, attempt |-> b,
                  between |-> [failed |-> log.failed, missed |-> log.missed],
                  failed |-> 0, missed |-> 0]
            ELSE [log EXCEPT !.attempt = b, !.failed = @ + 1],
            Tail(beacons))

(***************************************************************************)
(* The MessageScheduler on its own                                         *)
(***************************************************************************)
\* MessageScheduler of MacState::new, with the number of broadcasts that
\* have been scheduled and the broadcasts taken so far, in order
SchedInit ==
    [mac_state |-> NewMacState, arrived |-> 0, taken |-> <<>>,
     panicked |-> FALSE]

(***************************************************************************)
(* The ReqResp mailbox                                                     *)
(***************************************************************************)
RRIds == 0..(RRMaxRequests - 1)

Responses == {"a", "b"}

NoResponse == "none"

\* ReqResp::new, with the futures of the requesters, the requests the
\* consumer has received and not yet answered, and the ids that were
\* answered after their future had been dropped
RRInit ==
    [next_id |-> 0,
     requests |-> <<>>,
     waiters |-> [id \in RRIds |-> "absent"],
     waiter_value |-> [id \in RRIds |-> NoResponse],
     futures |-> [id \in RRIds |-> "none"],
     results |-> [id \in RRIds |-> NoResponse],
     taken |-> {},
     responded |-> [id \in RRIds |-> NoResponse],
     discarded |-> {}]

\* ReqResp::request: takes the next id and builds the future; nothing is
\* sent before the future is polled
request(st) ==
    [st EXCEPT !.next_id = @ + 1, !.futures[st.next_id] = "created"]

\* RequestFuture::poll: the join polls the wait on the id, then the send of
\* the request, and is ready when both are
poll(st, id) ==
    LET registered ==
            IF st.waiters[id] = "absent"
            THEN [st EXCEPT !.waiters[id] = "waiting"] ELSE st
        sent ==
            IF st.futures[id] \in {"created", "send_pending"}
            THEN IF Len(registered.requests) < RR_N
                 THEN [registered EXCEPT !.requests = Append(@, id),
                                         !.futures[id] = "sent"]
                 ELSE [registered EXCEPT !.futures[id] = "send_pending"]
            ELSE registered
    IN IF sent.futures[id] = "sent" /\ sent.waiters[id] = "woken"
       THEN [sent EXCEPT !.futures[id] = "done",
                         !.results[id] = sent.waiter_value[id],
                         !.waiters[id] = "absent"]
       ELSE sent

\* a consumer that receives the newest request of the channel
wait_for_request_newest(st) ==
    LET n == Len(st.requests) IN
    [st EXCEPT !.requests = SubSeq(@, 1, n - 1),
               !.taken = @ \cup {st.requests[n]}]

\* ReqResp::wait_for_request: the consumer receives the oldest request
wait_for_request(st) ==
    [st EXCEPT !.requests = Tail(@), !.taken = @ \cup {Head(st.requests)}]

\* the RequestFuture is dropped before it has resolved: the Wait leaves the
\* WaitMap, a send that has not happened never happens, a request that is
\* in the channel stays there
drop(st, id) ==
    [st EXCEPT !.futures[id] = "dropped", !.waiters[id] = "absent",
               !.waiter_value[id] = NoResponse]

\* a wake that goes to the waiter with the lowest id, whatever the id
respond_lowest(st, id, response) ==
    LET waiting == {i \in RRIds : st.waiters[i] = "waiting"} IN
    IF waiting = {} THEN st
    ELSE LET first == CHOOSE i \in waiting : \A j \in waiting : i <= j
         IN [st EXCEPT !.waiters[first] = "woken",
                       !.waiter_value[first] = response]

\* ReqResp::respond: wakes the waiter of the id with the response; without
\* such a waiter the response is dropped
respond(st, id, response) ==
    IF st.waiters[id] = "waiting"
    THEN [st EXCEPT !.waiters[id] = "woken", !.waiter_value[id] = response]
    ELSE st

(***************************************************************************)
(* The Aether of the simulated radios                                      *)
(***************************************************************************)
NodeIds == 1..MaxNodes

\* Aether::radio: the node of a new radio does not listen and its antenna,
\* a channel of ANTENNA_CAPACITY packets, is empty.  radio says whether the
\* AetherRadio, which holds the receiving end of the antenna, still exists,
\* attached whether the node is in the map of the aether
NewNode == [attached |-> TRUE, radio |-> TRUE, rx_enable |-> FALSE, antenna |-> 0]

\* the aether once Aether::radio has been called MaxNodes times; last_from
\* is the sender of the send that was the last step, 0 after any other step
AetherInit == [nodes |-> [n \in NodeIds |-> NewNode], last_from |-> 0]

\* an aether in which a node need not listen to be sent a packet
listening_always(from, to, node) == from # to

\* AetherInner::send: the nodes the loop does not skip
listening(from, to, node) == from # to /\ node.rx_enable

\* AetherInner::send: try_send puts the packet in the antenna of every node
\* that is not skipped, unless the antenna is full; the nodes whose antenna
\* is closed are removed from the map
AetherInner_send(nodes, from) ==
    [to \in NodeIds |->
        LET node == nodes[to] IN
        IF ~node.attached \/ ~listening(from, to, node) THEN node
        ELSE IF ~node.radio THEN [node EXCEPT !.attached = FALSE]
        ELSE IF node.antenna < ANTENNA_CAPACITY
        THEN [node EXCEPT !.antenna = @ + 1]
        ELSE node]

\* IndirectIndicationCollectionSlot: future is "None" for an empty slot,
\* "Pending" while the response is awaited and "Completed" once poll has
\* returned the response (poll leaves the completed future in the slot)
EmptySlot == [future |-> "None", expire_time |-> 0]

IndirectIndicationCollection_new ==
    [i \in 1..INDIRECT_INDICATION_COLLECTION_SIZE |-> EmptySlot]

is_empty(slot) == slot.future = "None"

Init ==
    /\ now = 0
    /\ loop_start = 0
    /\ engine = "running"
    /\ mac_pib = dummy_new
    /\ phy_channel = 0
    /\ phy_rx = FALSE
    /\ mac_state = NewMacState
    /\ indirect_indications = IndirectIndicationCollection_new
    /\ requests = <<>>
    /\ next_id = 0
    /\ confirms = [i \in 0..(MaxRequests - 1) |-> <<>>]
    /\ phy_sends = <<>>
    /\ last_rx = NoFrame
    /\ scan_log = NoScanLog
    /\ rx_count = 0
    /\ beacon_log = NoBeaconLog
    /\ assoc_log = [i \in 0..(MaxRequests - 1) |-> NoAssocLog]
    /\ rr = RRInit
    /\ sched = SchedInit
    /\ aether = AetherInit

(***************************************************************************)
(* The head of the event loop of run_mac_engine, which every handler       *)
(* returns to: current_time is read, wait_for_radio_event turns the        *)
(* receiver on for a PAN coordinator, and IndirectIndicationCollection::   *)
(* wait drops the expired indications                                      *)
(***************************************************************************)
check_expired(slots, current_time) ==
    [i \in DOMAIN slots |->
        IF ~is_empty(slots[i]) /\ current_time > slots[i].expire_time
        THEN EmptySlot ELSE slots[i]]

LoopHead(rx, slots) ==
    /\ loop_start' = now'
    /\ phy_rx' = (mac_state'.is_pan_coordinator \/ rx)
    /\ indirect_indications' = check_expired(slots, now')

\* the handler did not return: the engine panicked or waits for the upper layer
NoLoopHead(rx, slots) ==
    /\ loop_start' = loop_start
    /\ phy_rx' = rx
    /\ indirect_indications' = slots

Returns(rx, slots) ==
    IF engine' = "running" THEN LoopHead(rx, slots) ELSE NoLoopHead(rx, slots)

ApplyEffect(e) ==
    /\ mac_pib' = e.mac_pib
    /\ mac_state' = e.mac_state
    /\ confirms' = Deliver(confirms, e.out)
    /\ engine' = IF e.panic THEN "panicked" ELSE "running"

\* wait_for_own_superframe_start panics when it is polled while the beacon
\* interval and the beacon mode disagree
BeaconModePanics ==
    (beacon_interval(mac_pib) = 0) # (mac_state.beacon_mode = "Off")

\* wait_for_own_super_frame_end reaches unreachable!() when it is polled
\* while a superframe is active that has no duration
SuperframeEndPanics ==
    mac_state.own_superframe_active /\ superframe_duration(mac_pib) = 0

\* an engine that takes no event while the answer to an indirect indication
\* is outstanding
Waiting_answered ==
    /\ engine = "running"
    /\ \A i \in DOMAIN indirect_indications :
          indirect_indications[i].future # "Pending"

\* the engine waits in select3 for its next event
Waiting ==
    engine = "running" /\ ~BeaconModePanics /\ ~SuperframeEndPanics

(***************************************************************************)
(* The request/confirm SAP                                                 *)
(***************************************************************************)
\* MacCommander::request with one of the given requests: the request gets
\* the next id and is queued
Submit(values) ==
    /\ engine # "panicked"
    /\ next_id < MaxRequests
    /\ Len(requests) < Min(CHANNEL_SIZE, MaxQueued)
    /\ \E r \in values :
          requests' = Append(requests, [id |-> next_id, request |-> r])
    /\ next_id' = next_id + 1
    /\ UNCHANGED <<now, loop_start, engine, mac_pib, phy_channel, phy_rx,
                   mac_state, indirect_indications, confirms, phy_sends,
                   last_rx, scan_log, rx_count, beacon_log, assoc_log,
                   component_vars>>

SubmitRequest == Submit(RequestValues)

\* the engine takes the request at the head of the channel
Takes(kind) ==
    /\ Waiting
    /\ requests # <<>>
    /\ Head(requests).request.kind = kind
    /\ requests' = Tail(requests)
    /\ phy_sends' = <<>>
    /\ last_rx' = NoFrame
    /\ UNCHANGED <<next_id, rx_count, beacon_log, component_vars>>

HandleScanRequest ==
    /\ Takes("Scan")
    /\ \E o \in {"Success", "ErrPib"} :
          LET responder == Head(requests)
              e == process_scan_request(responder, o, mac_pib, mac_state, now)
          IN /\ ApplyEffect(e)
             /\ scan_log' =
                   IF e.out = <<>>
                   THEN [id |-> responder.id, request |-> responder.request,
                         accepted_at |-> now, pan_before |-> mac_pib.pan_id,
                         actions |-> <<>>, beacons |-> 0, limit |-> FALSE,
                         notified |-> 0, auto_request |-> {}, done |-> FALSE]
                   ELSE scan_log
    /\ now' = now
    /\ Returns(phy_rx, indirect_indications)
    /\ UNCHANGED <<phy_channel, assoc_log>>

HandleSetRequest ==
    /\ Takes("Set")
    /\ \E o \in {"Success", "ErrPib"} :
          /\ ApplyEffect(process_set_request(Head(requests), o, mac_pib,
                                             mac_state, phy_channel))
          /\ phy_channel' =
                IF o = "Success"
                THEN set_pib_value(Head(requests).request, mac_pib,
                                   phy_channel).phy_channel
                ELSE phy_channel
    /\ now' = now
    /\ Returns(phy_rx, indirect_indications)
    /\ UNCHANGED <<scan_log, assoc_log>>

HandleGetRequest ==
    /\ Takes("Get")
    /\ \E overflow_checks \in IF subtract_overflows(mac_pib)
                               THEN BOOLEAN ELSE {FALSE} :
          ApplyEffect(process_get_request(Head(requests), overflow_checks,
                                          mac_pib, mac_state, phy_channel))
    /\ now' = now
    /\ Returns(phy_rx, indirect_indications)
    /\ UNCHANGED <<phy_channel, scan_log, assoc_log>>

\* phy.reset() stops the receiver and restores the default PHY PIB
HandleResetRequest ==
    /\ Takes("Reset")
    /\ \E o \in {"Success", "Err"}, rng \in RandomBytes :
          /\ ApplyEffect(process_reset_request(Head(requests), o, rng,
                                               mac_pib, mac_state))
          /\ now' = now
          /\ IF Head(requests).request.set_default_pib /\ o = "Success"
             THEN phy_channel' = 0 /\ Returns(FALSE, indirect_indications)
             ELSE UNCHANGED phy_channel /\ Returns(phy_rx, indirect_indications)
    /\ UNCHANGED <<scan_log, assoc_log>>

HandleStartRequest ==
    /\ Takes("Start")
    /\ \E o \in {"Success", "ErrPib"} :
          LET responder == Head(requests)
              e == process_start_request(responder, o, mac_pib, mac_state)
          IN /\ ApplyEffect(e)
             /\ phy_channel' =
                   IF /\ e.out # <<>>
                      /\ e.out[1].confirm.status = "Success"
                   THEN responder.request.channel_number ELSE phy_channel
    /\ now' = now
    /\ Returns(phy_rx, indirect_indications)
    /\ UNCHANGED <<scan_log, assoc_log>>

\* the association request is sent with SendContinuation::WaitForResponse:
\* the engine is inside phy.send until the acknowledgement or the timeout
HandleAssociateRequest ==
    /\ Takes("Associate")
    /\ \E o \in PhyOutcomes :
          LET responder == Head(requests)
              sent == ~already_associated(mac_pib) /\ o # "ErrPib"
              waited == IF sent /\ o \in {"Success", "NoAck"}
                        THEN TURNAROUND_TIME + AckWaitSymbols ELSE 0
          IN /\ now + waited <= MaxTime
             /\ now' = now + waited
             /\ ApplyEffect(process_associate_request(responder, o, mac_pib,
                                                      mac_state, now + waited))
             /\ phy_channel' = IF sent THEN responder.request.channel_number
                                ELSE phy_channel
             /\ Returns(IF sent /\ o # "Err" THEN FALSE ELSE phy_rx,
                        indirect_indications)
             /\ assoc_log' =
                   IF sent
                   THEN [assoc_log EXCEPT ![responder.id] =
                           [NoAssocLog EXCEPT
                              !.request_result = o,
                              !.ack_at = IF o = "Success"
                                         THEN now + waited ELSE -1,
                              !.response_wait_time =
                                  mac_pib.response_wait_time]]
                   ELSE assoc_log
    /\ UNCHANGED scan_log

\* Disassociate, Gts, RxEnable, Sync, Poll, Dps, Sounding, Calibrate, Data
\* and Purge are todo!()
HandleUnimplementedRequest ==
    /\ Takes("Poll")
    /\ engine' = "panicked"
    /\ UNCHANGED <<now, loop_start, mac_pib, phy_channel, phy_rx, mac_state,
                   indirect_indications, confirms, scan_log, assoc_log>>

HandleRequest ==
    \/ HandleScanRequest
    \/ HandleSetRequest
    \/ HandleResetRequest
    \/ HandleStartRequest
    \/ HandleAssociateRequest
    \/ HandleUnimplementedRequest

(***************************************************************************)
(* Radio events: wait_for_radio_event and handle_radio_event               *)
(***************************************************************************)
DATA_REQUEST_PLANNING_HEADROOM == 20 * SymbolsPerMilli

BEACON_PLANNING_HEADROOM == 20 * SymbolsPerMilli

\* wait_for_own_superframe_start: the start of the next own superframe, the
\* time left until then at the head of the loop, and when the delay ends
Beaconing ==
    mac_state.beacon_mode = "OnAutonomous" /\ beacon_interval(mac_pib) # 0

NextSuperframeStart == mac_pib.beacon_tx_time + beacon_interval(mac_pib)

BeaconTimeout == NextSuperframeStart - loop_start

BeaconWake ==
    loop_start + delay_duration(BeaconTimeout - BEACON_PLANNING_HEADROOM)

BeaconDue == Beaconing /\ now >= BeaconWake

\* a superframe start that is missed only when it has passed
BeaconMissed_late == BeaconTimeout <= 0

\* the event is OwnSuperframeStartMissed and not OwnSuperframeStart
BeaconMissed ==
    mac_state.current_scan_process.active \/ BeaconTimeout <= 0

\* when the delay of wait_for_channel_scan_action ends
ScanWake ==
    loop_start
        + delay_duration(mac_state.current_scan_process.end_time - loop_start)

\* when the delay of wait_for_independent_data_request ends
DataRequestWake ==
    loop_start
        + delay_duration(mac_state.data_requests[1].timestamp - loop_start
                            - DATA_REQUEST_PLANNING_HEADROOM)

ScanActionDue ==
    mac_state.current_scan_process.active /\ now >= ScanWake

DataRequestDue ==
    mac_state.data_requests # <<>> /\ now >= DataRequestWake

\* when the delay of wait_for_own_super_frame_end ends
SuperframeEndWake ==
    loop_start
        + delay_duration(mac_pib.beacon_tx_time + superframe_duration(mac_pib)
                            - loop_start)

SuperframeEndDue ==
    mac_state.own_superframe_active /\ now >= SuperframeEndWake

Wakes ==
    (IF mac_state.current_scan_process.active THEN {ScanWake} ELSE {})
        \cup (IF mac_state.data_requests # <<>> THEN {DataRequestWake} ELSE {})
        \cup (IF Beaconing THEN {BeaconWake} ELSE {})
        \cup (IF mac_state.own_superframe_active
              THEN {SuperframeEndWake} ELSE {})

\* the engine sleeps in select3 until the first delay ends
AdvanceTime ==
    /\ Waiting
    /\ requests = <<>>
    /\ Wakes # {}
    /\ \A w \in Wakes : w > now
    /\ \E w \in Wakes :
          /\ \A v \in Wakes : w <= v
          /\ w <= MaxTime
          /\ now' = w
    /\ UNCHANGED <<loop_start, engine, mac_pib, phy_channel, phy_rx, mac_state,
                   indirect_indications, requests, next_id, confirms,
                   phy_sends, last_rx, scan_log, rx_count, beacon_log, assoc_log,
                   component_vars>>

\* perform_scan_action on the action wait_for_next_action returns
perform_scan_action(scan, action, o, pib, ms, current_time) ==
    LET taken == [ms EXCEPT !.current_scan_process = NoScan] IN
    IF action.kind = "Finish"
    THEN finish_scan(register_action_as_executed(scan, action), pib, taken)
    ELSE IF o \in {"ErrPib", "Err"}
    THEN abort_scan(scan, pib, taken, "PhyError")
    ELSE IF action.scan_type = "Active" /\ o = "ChannelAccessFailure"
    THEN Effect(pib,
                [ms EXCEPT !.current_scan_process =
                    register_action_as_failed(scan, current_time)],
                <<>>)
    ELSE Effect(pib,
                [ms EXCEPT !.current_scan_process =
                    register_action_as_executed(scan, action)],
                <<>>)

ScanActionEvent ==
    /\ Waiting
    /\ ScanActionDue
    /\ ~BeaconDue
    /\ LET scan == mac_state.current_scan_process
           action == wait_for_next_action(scan)
       IN
       \E o \in {"Success", "ChannelAccessFailure", "Err", "ErrPib"},
          t \in {now, -1} :
          /\ action.kind = "Finish" => o = "Success"
          /\ o = "ChannelAccessFailure" => action.scan_type = "Active"
          /\ t = -1 => o = "ChannelAccessFailure"
          /\ LET e == perform_scan_action(scan, action, o, mac_pib, mac_state, t)
                 result == IF e.out # <<>>
                           THEN IF action.kind = "Finish"
                                THEN "executed" ELSE "aborted"
                           ELSE IF o = "ChannelAccessFailure"
                                THEN "failed" ELSE "executed"
             IN /\ ApplyEffect(e)
                /\ scan_log' =
                      [scan_log EXCEPT
                          !.actions = Append(@, [kind |-> action.kind,
                                                 channel |-> action.channel,
                                                 at |-> now,
                                                 due |-> scan.end_time,
                                                 result |-> result]),
                          !.done = (e.out # <<>>)]
                /\ phy_channel' =
                      IF action.kind = "StartScan" /\ o # "ErrPib"
                      THEN action.channel ELSE phy_channel
                /\ phy_sends' =
                      IF /\ action.kind = "StartScan"
                         /\ action.scan_type = "Active"
                         /\ o # "ErrPib"
                      THEN <<"BeaconRequest">> ELSE <<>>
                /\ now' = now
                /\ Returns(IF e.out # <<>> THEN FALSE
                           ELSE IF o = "ChannelAccessFailure" THEN phy_rx
                           ELSE TRUE,
                           indirect_indications)
    /\ last_rx' = NoFrame
    /\ UNCHANGED <<requests, next_id, rx_count, beacon_log, assoc_log,
                   component_vars>>

\* IndirectIndicationCollection::push: the first empty slot is filled
FirstEmpty(slots) ==
    CHOOSE i \in DOMAIN slots :
        is_empty(slots[i]) /\ \A j \in DOMAIN slots : j < i => ~is_empty(slots[j])

\* process_received_associate_request: FALSE when push panics
CanPush(slots) == \E i \in DOMAIN slots : is_empty(slots[i])

process_received_associate_request(slots, pib, receive_time) ==
    [slots EXCEPT ![FirstEmpty(slots)] =
        [future |-> "Pending",
         expire_time |-> receive_time
                            + BASE_SUPERFRAME_DURATION * pib.response_wait_time]]

\* the SendAck event pushed to the back of next_events
push_ack_to_back(next_events, send_ack_event) == next_events \o <<send_ack_event>>

\* the SendAck event is pushed to the front of next_events
push_ack(next_events, send_ack_event) == <<send_ack_event>> \o next_events

\* the pending-data table of the message scheduler, kept as the number of
\* pending items of the one device the frames come from
has_pending_data(ms) == ms.pending_data > 0

take_pending_data(ms) ==
    IF has_pending_data(ms) THEN [ms EXCEPT !.pending_data = @ - 1] ELSE ms

push_pending_data(ms) == [ms EXCEPT !.pending_data = @ + 1]

\* a coordinator that answers beacon requests whatever macBeaconOrder is
beacon_requested_by_coordinator(pib, ms) == ms.is_pan_coordinator

\* process_message: whether a BeaconRequest is answered
beacon_requested(pib, ms) ==
    ms.is_pan_coordinator /\ pib.beacon_order = ON_DEMAND

\* a scan that rejects no frame
rejected_in_scan_never(scan, frame) == FALSE

\* process_message: during a scan, all non-beacon frames are rejected
rejected_in_scan(scan, frame) == scan.active /\ frame.type # "Beacon"

\* process_message: the state it leaves and the events it queues
process_message(frame, channel, pib, ms, slots, receive_time) ==
    LET scan == ms.current_scan_process
        none == [mac_state |-> ms, slots |-> slots, next_events |-> <<>>,
                 panic |-> FALSE, indicate |-> FALSE]
        acked(next_events, frame_pending) ==
            IF frame.ack_request
            THEN push_ack(next_events,
                          [event |-> "SendAck", frame_pending |-> frame_pending])
            ELSE next_events
    IN
    IF frame.type = "Garbage" THEN none
    ELSE IF rejected_in_scan(scan, frame) THEN none
    ELSE IF frame.type = "BeaconRequest"
    THEN IF beacon_requested(pib, ms)
         THEN [none EXCEPT !.next_events =
                    <<[event |-> "BeaconRequested", frame_pending |-> FALSE]>>]
         ELSE none
    ELSE IF scan.active
    THEN [none EXCEPT
            !.mac_state.current_scan_process =
                register_received_beacon(scan, frame.coord, channel, pib),
            !.indicate = ~stores_beacons(pib)]
    ELSE IF frame.type = "AssociationRequest"
    THEN IF CanPush(slots)
         THEN [none EXCEPT
                 !.slots = process_received_associate_request(slots, pib,
                                                              receive_time),
                 !.next_events = acked(<<>>, FALSE)]
         ELSE [none EXCEPT !.panic = TRUE]
    ELSE IF frame.type = "DataRequest"
    THEN [none EXCEPT
            !.next_events =
                acked(<<[event |-> "SendPendingData", frame_pending |-> FALSE]>>,
                      has_pending_data(ms))]
    ELSE [none EXCEPT !.next_events = acked(<<>>, FALSE)]

\* the state handle_radio_event threads through its events
Thread(pib, ms) ==
    [mac_pib |-> pib, mac_state |-> ms, out |-> <<>>, panic |-> FALSE,
     sends |-> <<>>, waited |-> 0, channel |-> -1, beacons |-> <<>>]

\* send_ack: the acknowledgement is handed to the PHY; neither result of the
\* send changes the state
send_ack(st, frame_pending) ==
    [st EXCEPT !.sends = Append(@, "Ack")]

\* a reply that never asks for an acknowledgement
ack_required_never(has_data) == FALSE

\* send_pending_data: the AssociationResponse asks for an acknowledgement,
\* the empty data frame does not
ack_required(has_data) == has_data

\* send_pending_data, with o the result of its phy.send
send_pending_data(st, o) ==
    LET has_data == has_pending_data(st.mac_state)
        taken == take_pending_data(st.mac_state)
        sent == [st EXCEPT
                   !.sends = Append(@, IF has_data THEN "AssociationResponse"
                                       ELSE "Data"),
                   !.mac_state = taken]
    IN
    IF o = "ChannelAccessFailure"
    THEN [sent EXCEPT !.mac_state = st.mac_state]
    ELSE IF o \in {"Err", "ErrPib"} THEN sent
    ELSE IF ack_required(has_data)
    THEN [sent EXCEPT !.waited = @ + TURNAROUND_TIME + AckWaitSymbols,
                      !.panic = (o = "NoAck")]
    ELSE sent

\* send_beacon; send_time is when the beacon goes out, o the result of
\* sending it, o2 of sending the broadcast and of the callback's PHY access
send_beacon(st, send_time, use_beacon_csma, o, o2) ==
    LET ms == st.mac_state
        seq == increment(st.mac_pib.bsn)
        active == [ms EXCEPT !.own_superframe_active =
                                (st.mac_pib.superframe_order # ON_DEMAND)]
        beacon == [st EXCEPT
                     !.sends = Append(@, "Beacon"),
                     !.mac_pib.bsn = seq,
                     !.mac_state = active,
                     !.beacons =
                        Append(@, [seq |-> seq, at |-> send_time,
                                   csma |-> use_beacon_csma,
                                   beacon_order |-> st.mac_pib.beacon_order,
                                   sent |-> (o = "Success")])]
    IN
    IF o # "Success" THEN beacon
    ELSE IF active.scheduled_broadcasts = <<>>
    THEN [beacon EXCEPT !.mac_pib.beacon_tx_time = send_time]
    ELSE LET taken == take_scheduled_broadcast(active)
             callback == taken.message
             e == coord_realignment_sent_callback(
                      callback,
                      IF o2 = "ChannelAccessFailure"
                      THEN "ChannelAccessFailure" ELSE "Success",
                      o2, beacon.mac_pib, taken.mac_state)
         IN [beacon EXCEPT
               !.sends = Append(@, "Broadcast"),
               !.mac_pib = [e.mac_pib EXCEPT !.beacon_tx_time = send_time],
               !.mac_state = e.mac_state,
               !.out = e.out,
               !.channel = IF e.out[1].confirm.status = "Success"
                           THEN callback.request.channel_number ELSE -1]

RECURSIVE RunEvents(_, _, _, _, _)
\* the loop of handle_radio_event over next_events
RunEvents(st, next_events, current_time, o, o2) ==
    IF next_events = <<>> \/ st.panic THEN st
    ELSE LET event == Head(next_events) IN
         RunEvents(
            CASE event.event = "SendAck" -> send_ack(st, event.frame_pending)
              [] event.event = "SendPendingData" -> send_pending_data(st, o)
              [] event.event = "BeaconRequested" ->
                    send_beacon(st, current_time, TRUE, o, o2),
            Tail(next_events), current_time, o, o2)

\* RadioEvent::PhyWaitDone with a message on the current channel, one of
\* the given frames
Receive(frames) ==
    /\ engine = "running"
    /\ phy_rx
    /\ rx_count < MaxFrames
    /\ \E frame \in frames :
          LET m == process_message(frame, phy_channel, mac_pib, mac_state,
                                   indirect_indications, now)
              sending == \E i \in 1..Len(m.next_events) :
                            m.next_events[i].event # "SendAck"
              broadcast == /\ m.next_events # <<>>
                           /\ m.next_events[1].event = "BeaconRequested"
                           /\ mac_state.scheduled_broadcasts # <<>>
          IN
          \E o \in IF sending
                    THEN {"Success", "ChannelAccessFailure", "Err", "NoAck"}
                    ELSE {"Success"},
             o2 \in IF broadcast
                     THEN {"Success", "ChannelAccessFailure", "ErrPib"}
                     ELSE {"Success"} :
          LET st == RunEvents(Thread(mac_pib, m.mac_state), m.next_events,
                              now, o, o2)
          IN /\ o2 # "Success" => o = "Success"
             /\ now + st.waited <= MaxTime
             /\ now' = now + st.waited
             /\ mac_pib' = st.mac_pib
             /\ mac_state' = st.mac_state
             /\ confirms' = Deliver(confirms, st.out)
             /\ engine' = IF m.panic \/ st.panic THEN "panicked"
                          ELSE IF m.indicate THEN "blocked_indication"
                          ELSE "running"
             /\ phy_channel' = IF st.channel >= 0 THEN st.channel ELSE phy_channel
             /\ phy_sends' = st.sends
             /\ last_rx' = [type |-> frame.type,
                            ack_request |-> frame.ack_request,
                            result |-> IF sending THEN o ELSE "None"]
             /\ scan_log' =
                   IF mac_state.current_scan_process.active
                        /\ frame.type = "Beacon"
                   THEN [scan_log EXCEPT
                           !.beacons = @ + 1,
                           !.notified = IF m.indicate THEN @ + 1 ELSE @,
                           !.auto_request = @ \cup {mac_pib.auto_request},
                           !.limit =
                              m.mac_state.current_scan_process.results.status
                                 = "LimitReached"]
                   ELSE scan_log
             /\ beacon_log' = LogBeacons(beacon_log, st.beacons)
             /\ Returns(IF st.sends = <<>> THEN phy_rx ELSE FALSE, m.slots)
    /\ rx_count' = rx_count + 1
    /\ UNCHANGED <<requests, next_id, assoc_log, component_vars>>

ReceiveFrame == Receive(Frames)

\* the upper layer answers the BeaconNotifyIndication the engine waits on
\* in register_received_beacon
BeaconNotifyResponse ==
    /\ engine = "blocked_indication"
    /\ \E dt \in {0, UpperLayerDelay} :
          /\ now + dt <= MaxTime
          /\ now' = now + dt
    /\ engine' = "running"
    /\ UNCHANGED mac_state
    /\ LoopHead(phy_rx, indirect_indications)
    /\ UNCHANGED <<mac_pib, phy_channel, requests, next_id, confirms,
                   phy_sends, last_rx, scan_log, rx_count, beacon_log, assoc_log,
                   component_vars>>

\* handle_response: the upper layer answers an AssociateIndication whose slot
\* is still filled; IndirectIndicationCollectionSlot::poll returns the
\* response and leaves the future in the slot; o is the result of get_instant
AssociateResponse ==
    /\ Waiting
    /\ \E i \in DOMAIN indirect_indications, o \in {"Success", "ErrPib"} :
          /\ indirect_indications[i].future = "Pending"
          /\ mac_state' =
                IF o = "Success"
                THEN push_pending_data(mac_state) ELSE mac_state
          /\ now' = now
          /\ LoopHead(phy_rx, [indirect_indications EXCEPT
                                    ![i].future = "Completed"])
    /\ phy_sends' = <<>>
    /\ last_rx' = NoFrame
    /\ UNCHANGED <<engine, mac_pib, phy_channel, requests, next_id, confirms,
                   scan_log, rx_count, beacon_log, assoc_log,
                   component_vars>>

\* IndirectIndicationCollection::wait polls every filled slot again in the
\* next select3, the slot of a delivered response included.  What polling the
\* completed future does is not defined by the source: it stays pending (no
\* step) or it panics (this step)
PollCompleted ==
    /\ Waiting
    /\ \E i \in DOMAIN indirect_indications :
          indirect_indications[i].future = "Completed"
    /\ engine' = "panicked"
    /\ UNCHANGED <<now, loop_start, mac_pib, phy_channel, phy_rx, mac_state,
                   indirect_indications, requests, next_id, confirms,
                   phy_sends, last_rx, scan_log, rx_count, beacon_log,
                   assoc_log, component_vars>>

\* RadioEvent::SendScheduledIndependentDataRequest: perform_data_request.
\* The PHY sends the data request at the send time it is given, or at once
\* when that time has passed; the engine is inside phy.send until the
\* acknowledgement or the timeout, and then listens until the response or
\* the end of the listen window
DataRequestEvent ==
    /\ Waiting
    /\ DataRequestDue
    /\ ~ScanActionDue
    /\ ~BeaconDue
    /\ \E o \in PhyOutcomes, frame_pending \in BOOLEAN,
          l \in ListenOutcomes, stop \in {"Success", "Err"} :
          LET data_request == Head(mac_state.data_requests)
              responder == data_request.callback
              send_time == Max(now, data_request.timestamp)
              acked == o = "Success"
              listens == acked /\ has_response(frame_pending) /\ l # "ErrStart"
              waited == IF o \in {"Success", "NoAck"}
                        THEN TURNAROUND_TIME + AckWaitSymbols ELSE 0
              listened ==
                  IF ~listens THEN 0
                  ELSE IF l = "Timeout"
                  THEN delay_duration(MaxFrameTotalWaitSymbols)
                  ELSE TURNAROUND_TIME
              confirm == perform_data_request(o, frame_pending, l, stop)
          IN \* the inputs that are not looked at have one value
             /\ ~acked => ~frame_pending
             /\ ~(acked /\ has_response(frame_pending)) => l = "Timeout"
             /\ ~listens => stop = "Success"
             /\ send_time + waited + listened <= MaxTime
             /\ now' = send_time + waited + listened
             /\ mac_pib' = mac_pib
             /\ mac_state' = [mac_state EXCEPT !.data_requests = Tail(@)]
             /\ engine' = IF confirm = NoConfirm THEN "panicked" ELSE "running"
             /\ confirms' = IF confirm = NoConfirm THEN confirms
                            ELSE Respond(confirms, responder.id, confirm)
             /\ phy_sends' = <<"DataRequest">>
             /\ assoc_log' =
                   [assoc_log EXCEPT ![responder.id] =
                      [@ EXCEPT
                         !.reached_at = now,
                         !.requested_at = data_request.timestamp,
                         !.sent_at = send_time,
                         !.data_result = o,
                         !.frame_pending = frame_pending,
                         !.listen = IF listens \/ l = "ErrStart"
                                    THEN l ELSE "None",
                         !.stop = IF listens THEN stop ELSE "None"]]
             /\ Returns(FALSE, indirect_indications)
    /\ last_rx' = NoFrame
    /\ UNCHANGED <<phy_channel, requests, next_id, scan_log, rx_count,
                   beacon_log, component_vars>>

\* RadioEvent::OwnSuperframeStartMissed: the beacon is not sent, because a
\* scan is in progress or the start has passed; macBeaconTxTime moves on
own_superframe_start_missed ==
    /\ mac_pib' = [mac_pib EXCEPT !.beacon_tx_time = NextSuperframeStart]
    /\ beacon_log' = [beacon_log EXCEPT !.missed = @ + 1]
    /\ now' = now
    /\ UNCHANGED <<engine, phy_channel, mac_state, confirms>>
    /\ phy_sends' = <<>>
    /\ LoopHead(phy_rx, indirect_indications)

\* RadioEvent::OwnSuperframeStart: send_beacon at the start of the own
\* superframe, without CSMA
own_superframe_start ==
    \E o \in IF beacon_log.failed < MaxBeaconFaults
              THEN {"Success", "Err"} ELSE {"Success"},
       o2 \in IF mac_state.scheduled_broadcasts # <<>>
               THEN {"Success", "ChannelAccessFailure", "ErrPib"}
               ELSE {"Success"} :
       LET start_time == Max(now, NextSuperframeStart)
           st == send_beacon(Thread(mac_pib, mac_state), start_time, FALSE,
                             o, o2)
       IN /\ o2 # "Success" => o = "Success"
          /\ start_time <= MaxTime
          /\ now' = IF o = "Success" THEN start_time ELSE now
          /\ mac_pib' = st.mac_pib
          /\ mac_state' = st.mac_state
          /\ confirms' = Deliver(confirms, st.out)
          /\ engine' = "running"
          /\ phy_channel' = IF st.channel >= 0 THEN st.channel ELSE phy_channel
          /\ phy_sends' = st.sends
          /\ beacon_log' = LogBeacons(beacon_log, st.beacons)
          /\ Returns(FALSE, indirect_indications)

\* the event of wait_for_own_superframe_start and its handling
OwnSuperframeStartEvent ==
    /\ Waiting
    /\ BeaconDue
    /\ IF BeaconMissed THEN own_superframe_start_missed
       ELSE own_superframe_start
    /\ last_rx' = NoFrame
    /\ UNCHANGED <<requests, next_id, scan_log, rx_count, assoc_log,
                   component_vars>>

\* RadioEvent::OwnSuperframeEnd: the superframe is over and the receiver is
\* stopped (macRxOnWhenIdle is false); a failure to stop it is only logged
OwnSuperframeEndEvent ==
    /\ Waiting
    /\ SuperframeEndDue
    /\ mac_state' = [mac_state EXCEPT !.own_superframe_active = FALSE]
    /\ now' = now
    /\ phy_sends' = <<>>
    /\ last_rx' = NoFrame
    /\ LoopHead(FALSE, indirect_indications)
    /\ UNCHANGED <<engine, mac_pib, phy_channel, requests, next_id, confirms,
                   scan_log, rx_count, beacon_log, assoc_log, component_vars>>

\* the unreachable!() of wait_for_own_super_frame_end at the head of the loop
SuperframeEndPanic ==
    /\ engine = "running"
    /\ ~BeaconModePanics
    /\ SuperframeEndPanics
    /\ engine' = "panicked"
    /\ UNCHANGED <<now, loop_start, mac_pib, phy_channel, phy_rx, mac_state,
                   indirect_indications, requests, next_id, confirms,
                   phy_sends, last_rx, scan_log, rx_count, beacon_log,
                   assoc_log, component_vars>>

\* the panic of wait_for_own_superframe_start at the head of the loop
BeaconModePanic ==
    /\ engine = "running"
    /\ BeaconModePanics
    /\ engine' = "panicked"
    /\ UNCHANGED <<now, loop_start, mac_pib, phy_channel, phy_rx, mac_state,
                   indirect_indications, requests, next_id, confirms,
                   phy_sends, last_rx, scan_log, rx_count, beacon_log,
                   assoc_log, component_vars>>

Next ==
    \/ SubmitRequest
    \/ HandleRequest
    \/ AdvanceTime
    \/ ScanActionEvent
    \/ ReceiveFrame
    \/ BeaconNotifyResponse
    \/ AssociateResponse
    \/ PollCompleted
    \/ DataRequestEvent

Spec == Init /\ [][Next]_vars

(***************************************************************************)
(* The engine of a PAN coordinator that sends its beacons autonomously:    *)
(* the state run_mac_engine is in once SetRequest(macShortAddress = 1) and *)
(* a StartRequest with macBeaconOrder 14 have been confirmed with Success  *)
(* and the beacon with sequence number 254 has just gone out, which is     *)
(* when the clock of the model starts.  The requests are numbered from the *)
(* first one submitted after that.  The only frames on the channel are     *)
(* beacon requests, and the upper layer scans, starts and resets.          *)
(***************************************************************************)
CoordinatorRequest ==
    CHOOSE r \in StartRequests : ~r.coord_realignment

BeaconingRequest == [CoordinatorRequest EXCEPT !.beacon_order = 14]

\* the beacon that has just gone out
FirstBeacon ==
    [seq |-> 254, at |-> 0, csma |-> FALSE,
     beacon_order |-> BeaconingRequest.beacon_order, sent |-> TRUE]

InitBeaconing ==
    /\ now = 0
    /\ loop_start = 0
    /\ engine = "running"
    /\ mac_pib = update_superframe_config(
                     [dummy_new EXCEPT !.short_address = 1,
                                       !.bsn = FirstBeacon.seq,
                                       !.beacon_tx_time = FirstBeacon.at],
                     BeaconingRequest)
    /\ phy_channel = BeaconingRequest.channel_number
    /\ phy_rx = TRUE
    /\ mac_state = [NewMacState EXCEPT !.is_pan_coordinator = TRUE,
                                       !.beacon_mode = "OnAutonomous"]
    /\ indirect_indications = IndirectIndicationCollection_new
    /\ requests = <<>>
    /\ next_id = 0
    /\ confirms = [i \in 0..(MaxRequests - 1) |-> <<>>]
    /\ phy_sends = <<>>
    /\ last_rx = NoFrame
    /\ scan_log = NoScanLog
    /\ rx_count = 0
    /\ beacon_log = LogBeacons(NoBeaconLog, <<FirstBeacon>>)
    /\ assoc_log = [i \in 0..(MaxRequests - 1) |-> NoAssocLog]
    /\ rr = RRInit
    /\ sched = SchedInit
    /\ aether = AetherInit

ReceiveBeaconRequest ==
    Receive({frame \in Frames : frame.type = "BeaconRequest"})

SubmitBeaconingRequest ==
    Submit(ScanRequests \cup StartRequests \cup ResetRequests)

NextBeaconing ==
    \/ SubmitBeaconingRequest
    \/ HandleScanRequest
    \/ HandleStartRequest
    \/ HandleResetRequest
    \/ AdvanceTime
    \/ ScanActionEvent
    \/ OwnSuperframeStartEvent
    \/ BeaconModePanic
    \/ ReceiveBeaconRequest

SpecBeaconing == InitBeaconing /\ [][NextBeaconing]_vars

(***************************************************************************)
(* The same PAN coordinator with an active portion in its superframe: the  *)
(* StartRequest had macSuperframeOrder 13, and the superframe the first    *)
(* beacon started is active.  The upper layer starts, sets and resets.     *)
(***************************************************************************)
SuperframeRequest == [BeaconingRequest EXCEPT !.superframe_order = 13]

SetSuperframeOrder ==
    [kind |-> "Set", pib_attribute |-> "macSuperframeOrder",
     value_of |-> "macSuperframeOrder", value |-> ON_DEMAND]

InitSuperframe ==
    /\ now = 0
    /\ loop_start = 0
    /\ engine = "running"
    /\ mac_pib = update_superframe_config(
                     [dummy_new EXCEPT !.short_address = 1,
                                       !.bsn = FirstBeacon.seq,
                                       !.beacon_tx_time = FirstBeacon.at],
                     SuperframeRequest)
    /\ phy_channel = SuperframeRequest.channel_number
    /\ phy_rx = TRUE
    /\ mac_state = [NewMacState EXCEPT !.is_pan_coordinator = TRUE,
                                       !.beacon_mode = "OnAutonomous",
                                       !.own_superframe_active = TRUE]
    /\ indirect_indications = IndirectIndicationCollection_new
    /\ requests = <<>>
    /\ next_id = 0
    /\ confirms = [i \in 0..(MaxRequests - 1) |-> <<>>]
    /\ phy_sends = <<>>
    /\ last_rx = NoFrame
    /\ scan_log = NoScanLog
    /\ rx_count = 0
    /\ beacon_log = LogBeacons(NoBeaconLog, <<FirstBeacon>>)
    /\ assoc_log = [i \in 0..(MaxRequests - 1) |-> NoAssocLog]
    /\ rr = RRInit
    /\ sched = SchedInit
    /\ aether = AetherInit

SubmitSuperframeRequest ==
    Submit(StartRequests \cup ResetRequests \cup {SetSuperframeOrder})

NextSuperframe ==
    \/ SubmitSuperframeRequest
    \/ HandleStartRequest
    \/ HandleResetRequest
    \/ HandleSetRequest
    \/ AdvanceTime
    \/ OwnSuperframeStartEvent
    \/ OwnSuperframeEndEvent
    \/ BeaconModePanic
    \/ SuperframeEndPanic

SpecSuperframe == InitSuperframe /\ [][NextSuperframe]_vars

(***************************************************************************)
(* The mailbox on its own: requesters, their futures and one consumer      *)
(***************************************************************************)
RRRequest ==
    /\ rr.next_id < RRMaxRequests
    /\ rr' = request(rr)
    /\ UNCHANGED <<engine_vars, sched, aether>>

RRPoll ==
    /\ \E id \in RRIds :
        /\ rr.futures[id] \in {"created", "send_pending", "sent"}
        /\ poll(rr, id) # rr
        /\ rr' = poll(rr, id)
    /\ UNCHANGED <<engine_vars, sched, aether>>

RRWaitForRequest ==
    /\ rr.requests # <<>>
    /\ rr' = wait_for_request(rr)
    /\ UNCHANGED <<engine_vars, sched, aether>>

RRRespond ==
    /\ \E id \in rr.taken, response \in Responses :
        rr' = [respond(rr, id, response) EXCEPT
                  !.taken = @ \ {id}, !.responded[id] = response,
                  !.discarded = IF rr.futures[id] = "dropped"
                                THEN @ \cup {id} ELSE @]
    /\ UNCHANGED <<engine_vars, sched, aether>>

(***************************************************************************)
(* The engine under SetRequests alone, over the read-only attributes, the  *)
(* attributes with a range and names no PIB knows                          *)
(***************************************************************************)
SubmitSetRequest == Submit(SetAttributeRequests)

NextSet == SubmitSetRequest \/ HandleSetRequest

SpecSet == Init /\ [][NextSet]_vars

(***************************************************************************)
(* The PIB under Set, Get and Reset requests, from the state a confirmed   *)
(* ResetRequest with set_default_pib = true leaves when config.rng gave 0  *)
(* for macBSN                                                              *)
(***************************************************************************)
InitPib ==
    /\ now = 0
    /\ loop_start = 0
    /\ engine = "running"
    /\ mac_pib = ResetMacPib(0)
    /\ phy_channel = 0
    /\ phy_rx = FALSE
    /\ mac_state = NewMacState
    /\ indirect_indications = IndirectIndicationCollection_new
    /\ requests = <<>>
    /\ next_id = 0
    /\ confirms = [i \in 0..(MaxRequests - 1) |-> <<>>]
    /\ phy_sends = <<>>
    /\ last_rx = NoFrame
    /\ scan_log = NoScanLog
    /\ rx_count = 0
    /\ beacon_log = NoBeaconLog
    /\ assoc_log = [i \in 0..(MaxRequests - 1) |-> NoAssocLog]
    /\ rr = RRInit
    /\ sched = SchedInit
    /\ aether = AetherInit

SubmitPibRequest ==
    Submit(PibSetRequests \cup GetRequests \cup ResetRequests)

NextPib ==
    \/ SubmitPibRequest
    \/ HandleSetRequest
    \/ HandleGetRequest
    \/ HandleResetRequest
    \/ BeaconModePanic

SpecPib == InitPib /\ [][NextPib]_vars

(***************************************************************************)
(* The engine of the coordinator of a PAN without beacons and the upper    *)
(* layer's answers: the state run_mac_engine is in once a ResetRequest     *)
(* with set_default_pib = true, SetRequest(macShortAddress = 1),           *)
(* SetRequest(macAutoRequest = false) and a StartRequest have been         *)
(* confirmed with Success.  Association requests and beacons arrive, the   *)
(* upper layer scans and sets, answers a BeaconNotifyIndication when it    *)
(* chooses to and never answers an AssociateIndication.  The engine task   *)
(* is polled whenever it can run and its timers fire.                      *)
(***************************************************************************)
InitIndication ==
    /\ now = 0
    /\ loop_start = 0
    /\ engine = "running"
    /\ mac_pib = update_superframe_config(
                     [ResetMacPib(0) EXCEPT !.short_address = 1,
                                            !.auto_request = FALSE],
                     CoordinatorRequest)
    /\ phy_channel = CoordinatorRequest.channel_number
    /\ phy_rx = TRUE
    /\ mac_state = [NewMacState EXCEPT !.is_pan_coordinator = TRUE]
    /\ indirect_indications = IndirectIndicationCollection_new
    /\ requests = <<>>
    /\ next_id = 0
    /\ confirms = [i \in 0..(MaxRequests - 1) |-> <<>>]
    /\ phy_sends = <<>>
    /\ last_rx = NoFrame
    /\ scan_log = NoScanLog
    /\ rx_count = 0
    /\ beacon_log = NoBeaconLog
    /\ assoc_log = [i \in 0..(MaxRequests - 1) |-> NoAssocLog]
    /\ rr = RRInit
    /\ sched = SchedInit
    /\ aether = AetherInit

SubmitIndicationRequest == Submit(ScanRequests \cup SetRequests)

ReceiveIndicationFrame ==
    Receive({frame \in Frames :
                frame.type \in {"AssociationRequest", "Beacon"}})

\* what the engine task does on its own
EngineStep ==
    \/ HandleScanRequest
    \/ HandleSetRequest
    \/ AdvanceTime
    \/ ScanActionEvent

NextIndication ==
    \/ SubmitIndicationRequest
    \/ ReceiveIndicationFrame
    \/ BeaconNotifyResponse
    \/ EngineStep

SpecIndication ==
    InitIndication /\ [][NextIndication]_vars /\ WF_vars(EngineStep)

NextReqResp == RRRequest \/ RRPoll \/ RRWaitForRequest \/ RRRespond

SpecReqResp == Init /\ [][NextReqResp]_vars

(***************************************************************************)
(* The aether on its own: the radios send, switch their receiver on and    *)
(* off, take packets from their antenna, and are dropped                   *)
(***************************************************************************)
AetherSend ==
    /\ \E from \in NodeIds :
        /\ aether.nodes[from].radio
        /\ aether' = [nodes |-> AetherInner_send(aether.nodes, from),
                      last_from |-> from]
    /\ UNCHANGED <<engine_vars, rr, sched>>

\* AetherRadio::start_receive and stop_receive
SetReceive ==
    /\ \E n \in NodeIds, on \in BOOLEAN :
        /\ aether.nodes[n].radio
        /\ aether.nodes[n].rx_enable # on
        /\ aether' = [aether EXCEPT !.nodes[n].rx_enable = on, !.last_from = 0]
    /\ UNCHANGED <<engine_vars, rr, sched>>

\* AetherRadio::wait: the radio takes the oldest packet from its antenna
RadioWait ==
    /\ \E n \in NodeIds :
        /\ aether.nodes[n].radio
        /\ aether.nodes[n].antenna > 0
        /\ aether' = [aether EXCEPT !.nodes[n].antenna = @ - 1, !.last_from = 0]
    /\ UNCHANGED <<engine_vars, rr, sched>>

\* the AetherRadio is dropped: the antenna is closed and what it holds is
\* lost; the node stays in the map
RadioDropped ==
    /\ \E n \in NodeIds :
        /\ aether.nodes[n].radio
        /\ aether' = [aether EXCEPT !.nodes[n].radio = FALSE,
                                    !.nodes[n].antenna = 0, !.last_from = 0]
    /\ UNCHANGED <<engine_vars, rr, sched>>

NextAether == AetherSend \/ SetReceive \/ RadioWait \/ RadioDropped

SpecAether == Init /\ [][NextAether]_vars

\* the mailbox with requesters that may drop a future that has not resolved
RRDrop ==
    /\ \E id \in RRIds :
        /\ rr.futures[id] \in {"created", "send_pending", "sent"}
        /\ rr' = drop(rr, id)
    /\ UNCHANGED <<engine_vars, sched, aether>>

NextReqRespDrop ==
    RRRequest \/ RRPoll \/ RRWaitForRequest \/ RRRespond \/ RRDrop

SpecReqRespDrop == Init /\ [][NextReqRespDrop]_vars

(***************************************************************************)
(* The scheduler on its own: broadcasts are scheduled with either push and *)
(* taken one at a time.  A broadcast carries the number of its arrival.    *)
(***************************************************************************)
Scheduled(e) ==
    [sched EXCEPT !.mac_state = e.mac_state,
                  !.arrived = @ + 1,
                  !.panicked = e.panic]

ScheduleBroadcast ==
    /\ ~sched.panicked
    /\ sched.arrived < MaxScheduled
    /\ sched' = Scheduled(schedule_broadcast(dummy_new, sched.mac_state,
                              [n |-> sched.arrived, priority |-> FALSE]))
    /\ UNCHANGED <<engine_vars, rr, aether>>

ScheduleBroadcastPriority ==
    /\ ~sched.panicked
    /\ sched.arrived < MaxScheduled
    /\ sched' = Scheduled(schedule_broadcast_priority(dummy_new, sched.mac_state,
                              [n |-> sched.arrived, priority |-> TRUE]))
    /\ UNCHANGED <<engine_vars, rr, aether>>

TakeScheduledBroadcast ==
    /\ ~sched.panicked
    /\ sched.mac_state.scheduled_broadcasts # <<>>
    /\ LET t == take_scheduled_broadcast(sched.mac_state) IN
       sched' = [sched EXCEPT !.mac_state = t.mac_state,
                              !.taken = Append(@, t.message)]
    /\ UNCHANGED <<engine_vars, rr, aether>>

NextScheduler ==
    ScheduleBroadcast \/ ScheduleBroadcastPriority \/ TakeScheduledBroadcast

SpecScheduler == Init /\ [][NextScheduler]_vars

(***************************************************************************)
(* Properties                                                              *)
(***************************************************************************)
Range(seq) == {seq[i] : i \in 1..Len(seq)}

\* the engine has taken the request out of the request channel
Taken(id) ==
    id < next_id /\ \A i \in 1..Len(requests) : requests[i].id # id

\* the responder of the request is still held by the engine
Held(id) ==
    \/ /\ mac_state.current_scan_process.active
       /\ mac_state.current_scan_process.responder.id = id
    \/ \E i \in 1..Len(mac_state.scheduled_broadcasts) :
          mac_state.scheduled_broadcasts[i].id = id
    \/ \E i \in 1..Len(mac_state.data_requests) :
          mac_state.data_requests[i].callback.id = id

\* C1: every request gets exactly one confirm.  As long as the engine has
\* not panicked, a request it has taken either has exactly one confirm, or
\* has none yet and its responder is still held so that the confirm can
\* still be issued.
C1_ExactlyOneConfirm ==
    engine # "panicked" =>
        \A id \in DOMAIN confirms :
            Taken(id) =>
                \/ Len(confirms[id]) = 1 /\ ~Held(id)
                \/ Len(confirms[id]) = 0 /\ Held(id)

\* C2: a request future that has resolved holds the response that was
\* passed to respond for its own id, and a response passed to respond for
\* an id is held for the future of that id until it resolves: it reaches no
\* other future and is not lost, whatever the number of outstanding requests.
C2_OwnResponse ==
    \A id \in RRIds :
        /\ rr.futures[id] = "done" =>
                /\ rr.responded[id] # NoResponse
                /\ rr.results[id] = rr.responded[id]
        /\ (rr.responded[id] # NoResponse /\ rr.futures[id] # "done") =>
                /\ rr.waiters[id] = "woken"
                /\ rr.waiter_value[id] = rr.responded[id]
        /\ rr.responded[id] = NoResponse => rr.results[id] = NoResponse

\* the fifth request resolved with its own response while the four before
\* it were still outstanding, one of them answered with the other response
C2_Witness ==
    /\ rr.futures[RR_N] = "done"
    /\ rr.results[RR_N] = "a"
    /\ rr.responded[RR_N] = "a"
    /\ \A id \in 0..(RR_N - 1) : rr.futures[id] \in {"sent", "send_pending"}
    /\ rr.responded[0] = "b"

\* a step in which handle_radio_event processes a frame with the ack-request bit
ReceivedAckRequest ==
    rx_count' = rx_count + 1 /\ last_rx'.ack_request

AckIsFirstSend ==
    /\ phy_sends' # <<>>
    /\ phy_sends'[1] = "Ack"
    /\ \A i \in 2..Len(phy_sends') : phy_sends'[i] # "Ack"

NotAcknowledged ==
    \/ mac_state.current_scan_process.active
    \/ last_rx'.type = "BeaconRequest"

SecondScanTaken ==
    /\ engine = "running"
    /\ requests # <<>>
    /\ Head(requests).request.kind = "Scan"
    /\ mac_state.current_scan_process.active
    /\ requests' = Tail(requests)

\* C4 as stated: a ScanRequest taken while a scan is in progress is confirmed
\* with ScanInProgress and leaves the running scan as it is.
C4_AlwaysScanInProgress ==
    [][SecondScanTaken =>
        /\ Len(confirms'[Head(requests).id]) = 1
        /\ confirms'[Head(requests).id][1].status = "ScanInProgress"
        /\ mac_state'.current_scan_process = mac_state.current_scan_process]_vars

\* C4: a ScanRequest taken while a scan is in progress is confirmed at once,
\* with ScanInProgress or, when the PHY cannot report the time, with
\* PhyError, and it changes nothing of the running scan, of the PIB or of
\* the channel: the running scan keeps its responder and its progress.
C4_ScanInProgress ==
    [][SecondScanTaken =>
        /\ Len(confirms'[Head(requests).id]) = 1
        /\ confirms'[Head(requests).id][1].status
                \in {"ScanInProgress", "PhyError"}
        /\ confirms'[Head(requests).id][1].pan_descriptor_list = <<>>
        /\ \A id \in DOMAIN confirms :
                id # Head(requests).id => confirms'[id] = confirms[id]
        /\ mac_state' = mac_state
        /\ mac_pib' = mac_pib
        /\ phy_channel' = phy_channel
        /\ scan_log' = scan_log]_vars

\* the second request was refused and the first scan later confirmed
C4_Witness ==
    /\ scan_log.id = 0
    /\ scan_log.done
    /\ Len(confirms[0]) = 1
    /\ confirms[0][1].status \in {"Success", "NoBeacon"}
    /\ Len(confirms[1]) = 1
    /\ confirms[1][1].status = "ScanInProgress"

\* C5: a scan whose PAN-descriptor list became full confirms LimitReached.
C5_LimitReached ==
    (scan_log.done /\ scan_log.limit) =>
        confirms[scan_log.id][1].status = "LimitReached"

\* the scan ran to completion: its last action was Finish
Completed ==
    /\ scan_log.done
    /\ scan_log.actions # <<>>
    /\ scan_log.actions[Len(scan_log.actions)].kind = "Finish"

ScannedChannels ==
    { scan_log.actions[i].channel : i \in
        { j \in 1..Len(scan_log.actions) :
            /\ scan_log.actions[j].kind = "StartScan"
            /\ scan_log.actions[j].result = "executed" } }

\* C6: the confirm of a scan that ran to completion has status NoBeacon if
\* at least one channel was scanned and no beacon was received during the
\* scan, and Success otherwise.
C6_CompletionStatus ==
    Completed =>
        confirms[scan_log.id][1].status =
            IF ScannedChannels # {} /\ scan_log.beacons = 0
            THEN "NoBeacon" ELSE "Success"

C6_Witness ==
    /\ Completed
    /\ ScannedChannels # {}
    /\ scan_log.beacons = 0
    /\ confirms[scan_log.id][1].status = "NoBeacon"

\* C7: while an Active or Passive scan is in progress macPanId is the
\* broadcast PAN id.
C7_PanIdBroadcastDuringScan ==
    (/\ mac_state.current_scan_process.active
     /\ mac_state.current_scan_process.results.scan_type
            \in {"Active", "Passive"})
        => mac_pib.pan_id = BROADCAST

\* C8: in the step in which a scan issues its confirm, by completion or by
\* abort, macPanId becomes the value it had just before the scan was
\* accepted.
C8_PanIdRestored ==
    [][(~scan_log.done /\ scan_log'.done)
        => mac_pib'.pan_id = scan_log.pan_before]_vars

C8_Witness ==
    /\ scan_log.done
    /\ scan_log.pan_before = 1
    /\ mac_pib.pan_id = 1
    /\ Len(confirms[scan_log.id]) = 1

\* C9: in the confirm of an Active scan every channel whose BeaconRequest
\* met a channel-access failure is listed in unscanned_channels and no
\* channel that was scanned is; the scan tries the channels of the request
\* one after the other, and goes on after a failed channel.
C9_SkippedChannels ==
    (scan_log.done /\ scan_log.request.scan_type = "Active") =>
        LET unscanned == Range(confirms[scan_log.id][1].unscanned_channels)
            actions == scan_log.actions
        IN \A i \in 1..Len(actions) :
            /\ actions[i].kind = "StartScan" =>
                    actions[i].channel = scan_log.request.scan_channels[i]
            /\ actions[i].result = "failed" =>
                    actions[i].channel \in unscanned /\ i < Len(actions)
            /\ (actions[i].kind = "StartScan" /\ actions[i].result = "executed")
                    => actions[i].channel \notin unscanned

\* a channel was skipped, the next one scanned, and the scan completed
C9_Witness ==
    /\ Completed
    /\ scan_log.request.scan_type = "Active"
    /\ Len(scan_log.actions) = 3
    /\ scan_log.actions[1].result = "failed"
    /\ scan_log.actions[2].result = "executed"
    /\ confirms[scan_log.id][1].unscanned_channels
            = <<scan_log.actions[1].channel>>

\* the time of one channel scan the scan_duration of the request stands for
ClaimedScanDuration ==
    BASE_SUPERFRAME_DURATION * (2 ^ Min(scan_log.request.scan_duration, 14) + 1)

\* the scan completed and every channel of the request was scanned
AllChannelsScanned ==
    /\ Completed
    /\ Len(scan_log.actions) = Len(scan_log.request.scan_channels) + 1
    /\ \A i \in 1..Len(scan_log.actions) :
            scan_log.actions[i].result = "executed"

ListenTime(i) == scan_log.actions[i + 1].at - scan_log.actions[i].at

Elapsed ==
    scan_log.actions[Len(scan_log.actions)].at - scan_log.accepted_at

OnTime ==
    /\ ~scan_log.limit
    /\ \A i \in 1..Len(scan_log.actions) :
            scan_log.actions[i].at <= scan_log.actions[i].due

ScanResults ==
    (IF mac_state.current_scan_process.active
     THEN {mac_state.current_scan_process.results} ELSE {})
    \cup { c \in UNION { Range(confirms[id]) : id \in DOMAIN confirms } :
              "pan_descriptor_list" \in DOMAIN c }

\* C11: no PAN-descriptor list of a scan holds two descriptors with the same
\* coordinator address and channel number, and result_list_size is the
\* number of descriptors in the list.
C11_NoDuplicateDescriptors ==
    \A r \in ScanResults :
        /\ r.result_list_size = Len(r.pan_descriptor_list)
        /\ \A i, j \in 1..Len(r.pan_descriptor_list) :
              (/\ r.pan_descriptor_list[i].coord_address
                      = r.pan_descriptor_list[j].coord_address
               /\ r.pan_descriptor_list[i].channel_number
                      = r.pan_descriptor_list[j].channel_number) => i = j

\* the beacon of one coordinator was received twice on a channel with
\* macAutoRequest set, and the list holds one descriptor
C11_Witness ==
    /\ mac_state.current_scan_process.active
    /\ scan_log.auto_request = {TRUE}
    /\ scan_log.beacons = 2
    /\ Len(mac_state.current_scan_process.results.pan_descriptor_list) = 1

\* C12: when macAutoRequest was not set at any beacon of a scan, every beacon
\* received during the scan was indicated to the upper layer once and none
\* was stored: the list of the scan is empty and result_list_size is 0, in
\* the scan in progress and in the ScanConfirm.
C12_BeaconsNotified ==
    (scan_log.id >= 0 /\ scan_log.auto_request \subseteq {FALSE}) =>
        /\ scan_log.notified = scan_log.beacons
        /\ engine = "blocked_indication" => scan_log.notified > 0
        /\ mac_state.current_scan_process.active =>
              /\ mac_state.current_scan_process.results.pan_descriptor_list = <<>>
              /\ mac_state.current_scan_process.results.result_list_size = 0
        /\ scan_log.done =>
              /\ confirms[scan_log.id][1].pan_descriptor_list = <<>>
              /\ confirms[scan_log.id][1].result_list_size = 0

\* two beacons were indicated and the scan confirmed with an empty list
C12_Witness ==
    /\ scan_log.done
    /\ scan_log.auto_request = {FALSE}
    /\ scan_log.notified = 2
    /\ confirms[scan_log.id][1].pan_descriptor_list = <<>>
    /\ confirms[scan_log.id][1].result_list_size = 0

(***************************************************************************)
(* The start procedure with a coordinator realignment                      *)
(***************************************************************************)
\* this step takes a StartRequest with coord_realignment while the device
\* has a short address
TakesRealignment ==
    /\ engine = "running"
    /\ requests # <<>>
    /\ requests' = Tail(requests)
    /\ Head(requests).request.kind = "Start"
    /\ Head(requests).request.coord_realignment
    /\ mac_pib.short_address # BROADCAST

\* the MAC PIB attributes a StartRequest writes
StartAttributes(pib) == <<pib.pan_id, pib.beacon_order, pib.superframe_order>>

\* this step leaves what a StartRequest changes as it is
StartNotApplied ==
    /\ StartAttributes(mac_pib') = StartAttributes(mac_pib)
    /\ phy_channel' = phy_channel
    /\ mac_state'.is_pan_coordinator = mac_state.is_pan_coordinator
    /\ mac_state'.beacon_mode = mac_state.beacon_mode

\* this step applies the changes of the StartRequest
StartApplied(start) ==
    /\ StartAttributes(mac_pib')
          = StartAttributes(update_superframe_config(mac_pib, start))
    /\ phy_channel' = start.channel_number
    /\ mac_state'.is_pan_coordinator = start.pan_coordinator

\* this step wrote the MAC PIB attributes of the StartRequest and then
\* failed to write the PHY PIB
StartHalfApplied(start) ==
    /\ StartAttributes(mac_pib')
          = StartAttributes(update_superframe_config(mac_pib, start))
    /\ phy_channel' = phy_channel
    /\ mac_state'.is_pan_coordinator = mac_state.is_pan_coordinator

\* a StartRequest with coord_realignment is held back, unapplied and
\* unconfirmed, in the broadcast queue; it is confirmed by the step that
\* sends the broadcast, with one of the given statuses
DeferredStart(statuses) ==
    /\ TakesRealignment =>
          \/ engine' = "panicked"
          \/ /\ StartNotApplied
             /\ confirms' = confirms
             /\ mac_state'.scheduled_broadcasts # <<>>
             /\ Head(mac_state'.scheduled_broadcasts) = Head(requests)
    /\ \A r \in Range(mac_state.scheduled_broadcasts) :
          /\ confirms[r.id] = <<>>
          /\ confirms'[r.id] # <<>> =>
                /\ "Broadcast" \in Range(phy_sends')
                /\ Len(confirms'[r.id]) = 1
                /\ confirms'[r.id][1].status \in statuses
                /\ confirms'[r.id][1].status = "Success" =>
                      StartApplied(r.request)
                /\ confirms'[r.id][1].status = "ChannelAccessFailure" =>
                      StartNotApplied
                /\ confirms'[r.id][1].status = "PhyError" =>
                      StartHalfApplied(r.request)

C14_ArrivalOrder ==
    [][Len(sched'.taken) > Len(sched.taken) =>
          LET m == sched'.taken[Len(sched'.taken)] IN
          m.priority
            \/ \A q \in Range(sched'.mac_state.scheduled_broadcasts) :
                    m.n < q.n]_vars

(***************************************************************************)
(* Beacons                                                                 *)
(***************************************************************************)
\* two beacons have gone out; prev and last are the last two
TwoBeacons == beacon_log.prev.sent /\ beacon_log.last.sent

\* C15 as stated: the sequence numbers of successive beacons that go out
\* differ by one modulo 256.
C15_ConsecutiveNumbers ==
    TwoBeacons =>
        beacon_log.last.seq = (beacon_log.prev.seq + 1) % 256

\* C15: every beacon handed to the PHY takes the next sequence number
\* modulo 256, whether its send succeeds or not: the sequence numbers of
\* successive beacons that go out differ by one plus the number of beacon
\* sends that failed between them, for periodic beacons and beacons sent in
\* reply to a BeaconRequest alike.
C15_SequenceNumbers ==
    TwoBeacons =>
        beacon_log.last.seq
            = (beacon_log.prev.seq + 1 + beacon_log.between.failed) % 256

\* a periodic beacon with sequence number 255 is followed, with no failed
\* send in between, by a beacon sent in reply to a BeaconRequest
C15_Witness ==
    /\ TwoBeacons
    /\ ~beacon_log.prev.csma
    /\ beacon_log.prev.seq = 255
    /\ beacon_log.last.csma
    /\ beacon_log.last.seq = 0
    /\ beacon_log.between.failed = 0

\* the last two beacons that went out are periodic beacons of the same
\* macBeaconOrder
TwoPeriodicBeacons ==
    /\ TwoBeacons
    /\ ~beacon_log.prev.csma
    /\ ~beacon_log.last.csma
    /\ beacon_log.prev.beacon_order = beacon_log.last.beacon_order

\* aBaseSuperframeDuration * 2^BO of the last beacon
ClaimedBeaconInterval ==
    BASE_SUPERFRAME_DURATION * 2 ^ beacon_log.last.beacon_order

BeaconDistance == beacon_log.last.at - beacon_log.prev.at

\* C16 as stated: consecutive periodic beacons are one beacon interval
\* apart, within the planning headroom.
C16_OneInterval ==
    TwoPeriodicBeacons =>
        /\ BeaconDistance >= ClaimedBeaconInterval - BEACON_PLANNING_HEADROOM
        /\ BeaconDistance <= ClaimedBeaconInterval + BEACON_PLANNING_HEADROOM

\* C16: consecutive periodic beacons are a whole number of beacon intervals
\* apart: one interval, and one more for every superframe start that was
\* missed in between (a scan was in progress, or the start had passed).
C16_WholeIntervals ==
    TwoPeriodicBeacons =>
        BeaconDistance
            = ClaimedBeaconInterval * (1 + beacon_log.between.missed)

\* two periodic beacons with one missed superframe start between them
C16_Witness ==
    /\ TwoPeriodicBeacons
    /\ beacon_log.between.missed = 1
    /\ BeaconDistance = 2 * ClaimedBeaconInterval

\* this step is the reception of a BeaconRequest
ReceivesBeaconRequest ==
    rx_count' = rx_count + 1 /\ last_rx'.type = "BeaconRequest"

\* this step hands one beacon to the PHY, with CSMA
BeaconInReply ==
    /\ phy_sends' # <<>>
    /\ phy_sends'[1] = "Beacon"
    /\ beacon_log'.attempt.csma
    /\ beacon_log'.attempt.seq = increment(mac_pib.bsn)
    /\ beacon_log'.attempt.at = now

\* this step sends nothing and leaves the MAC as it is
BeaconRequestIgnored ==
    /\ phy_sends' = <<>>
    /\ mac_pib' = mac_pib
    /\ mac_state' = mac_state
    /\ confirms' = confirms
    /\ beacon_log' = beacon_log
    /\ engine' = engine

\* C17 as stated: a BeaconRequest is answered with a beacon, using CSMA, if
\* and only if the device is the PAN coordinator and macBeaconOrder is
\* OnDemand; otherwise it is ignored and nothing is sent.
C17_CoordinatorOnDemand ==
    [][ReceivesBeaconRequest =>
          IF mac_state.is_pan_coordinator /\ mac_pib.beacon_order = ON_DEMAND
          THEN BeaconInReply ELSE BeaconRequestIgnored]_vars

\* C17: a BeaconRequest is answered with a beacon, using CSMA, if and only
\* if the device is the PAN coordinator, macBeaconOrder is OnDemand and no
\* scan is in progress; otherwise it is ignored and nothing is sent.
C17_BeaconOnRequest ==
    [][ReceivesBeaconRequest =>
          IF /\ mac_state.is_pan_coordinator
             /\ mac_pib.beacon_order = ON_DEMAND
             /\ ~mac_state.current_scan_process.active
          THEN BeaconInReply ELSE BeaconRequestIgnored]_vars

\* a BeaconRequest has just been answered with a beacon sent with CSMA
C17_Witness ==
    /\ last_rx.type = "BeaconRequest"
    /\ phy_sends # <<>>
    /\ phy_sends[1] = "Beacon"
    /\ beacon_log.attempt.csma
    /\ beacon_log.attempt.sent

(***************************************************************************)
(* Association                                                             *)
(***************************************************************************)
\* the AssociationRequest of request id was acknowledged
AssociationAcknowledged(id) == assoc_log[id].request_result = "Success"

\* the association DataRequest of request id has been handed to the PHY
DataRequestSent(id) == assoc_log[id].sent_at # -1

\* ack_timestamp + macResponseWaitTime * aBaseSuperframeDuration
ClaimedDataRequestTime(id) ==
    assoc_log[id].ack_at
        + assoc_log[id].response_wait_time * BASE_SLOT_DURATION
                                           * NUM_SUPERFRAME_SLOTS

\* no AssociateConfirm before the data request exchange, one at most after
ConfirmAfterExchange(id) ==
    /\ AssociationAcknowledged(id) /\ ~DataRequestSent(id)
          => confirms[id] = <<>>
    /\ DataRequestSent(id) => Len(confirms[id]) <= 1

\* C18 as stated: after the acknowledgement of the AssociationRequest the
\* DataRequest is sent at ack_timestamp + macResponseWaitTime *
\* aBaseSuperframeDuration, and the AssociateConfirm is issued only after
\* the data request exchange.
C18_AtResponseWaitTime ==
    \A id \in DOMAIN assoc_log :
        /\ DataRequestSent(id)
              => assoc_log[id].sent_at = ClaimedDataRequestTime(id)
        /\ ConfirmAfterExchange(id)

\* C18: after the acknowledgement of the AssociationRequest the DataRequest
\* is given ack_timestamp + macResponseWaitTime * aBaseSuperframeDuration as
\* its send time and is not sent earlier: it is sent at that time, or, when
\* the engine gets to it later than that, when the engine gets to it; the
\* AssociateConfirm is issued only after the data request exchange.
C18_DataRequestTime ==
    \A id \in DOMAIN assoc_log :
        /\ DataRequestSent(id) =>
              /\ AssociationAcknowledged(id)
              /\ assoc_log[id].requested_at = ClaimedDataRequestTime(id)
              /\ assoc_log[id].sent_at
                    = Max(assoc_log[id].reached_at, ClaimedDataRequestTime(id))
        /\ ConfirmAfterExchange(id)

\* with macResponseWaitTime 32 the engine got to the data request before
\* its time, sent it at its time, and has confirmed the association
C18_Witness ==
    \E id \in DOMAIN assoc_log :
        /\ DataRequestSent(id)
        /\ assoc_log[id].response_wait_time = RESPONSE_WAIT_TIME
        /\ assoc_log[id].reached_at < assoc_log[id].sent_at
        /\ assoc_log[id].sent_at = ClaimedDataRequestTime(id)
        /\ Len(confirms[id]) = 1
        /\ confirms[id][1].status = "Success"

AssociateFailed(id, status) ==
    confirms[id] = <<[status |-> status, assoc_short_address |-> BROADCAST]>>

\* C19 as stated: when the AssociationRequest, or the DataRequest that
\* follows it, gets no acknowledgement with the matching sequence number,
\* the AssociateRequest is confirmed with NoAck.
C19_NoAckConfirmed ==
    \A id \in DOMAIN assoc_log :
        /\ assoc_log[id].request_result = "NoAck"
              => AssociateFailed(id, "NoAck")
        /\ assoc_log[id].data_result = "NoAck"
              => AssociateFailed(id, "NoAck")

\* the DataRequest of request id was acknowledged
DataRequestAcknowledged(id) == assoc_log[id].data_result = "Success"

\* no AssociationResponse arrived within the listen window
ListenTimedOut(id) ==
    /\ DataRequestAcknowledged(id)
    /\ assoc_log[id].frame_pending
    /\ assoc_log[id].listen = "Timeout"

\* C20 as stated: when the acknowledgement of the DataRequest has no
\* frame-pending bit, or no AssociationResponse arrives within the listen
\* window, the AssociateRequest is confirmed with NoData.
C20_NoDataConfirmed ==
    \A id \in DOMAIN assoc_log :
        /\ DataRequestAcknowledged(id) /\ ~assoc_log[id].frame_pending
              => AssociateFailed(id, "NoData")
        /\ ListenTimedOut(id) => AssociateFailed(id, "NoData")

\* C20: when the acknowledgement of the DataRequest has no frame-pending
\* bit, the AssociateRequest is confirmed with NoData; when no
\* AssociationResponse arrives within the listen window, it is confirmed
\* with NoData if the receiver can then be stopped, and with PhyError if
\* stop_receive fails.
C20_NoDataOrPhyError ==
    \A id \in DOMAIN assoc_log :
        /\ DataRequestAcknowledged(id) /\ ~assoc_log[id].frame_pending
              => AssociateFailed(id, "NoData")
        /\ ListenTimedOut(id) =>
              AssociateFailed(id, IF assoc_log[id].stop = "Success"
                                  THEN "NoData" ELSE "PhyError")

\* the listen window has ended without a response, the receiver has been
\* stopped and the AssociateRequest has its NoData confirm
C20_Witness ==
    \E id \in DOMAIN assoc_log :
        /\ ListenTimedOut(id)
        /\ assoc_log[id].stop = "Success"
        /\ AssociateFailed(id, "NoData")

\* this step ends the data request exchange of an association with the
\* AssociationResponse of the coordinator
AssociationCompletes ==
    /\ phy_sends' = <<"DataRequest">>
    /\ mac_state.data_requests # <<>>
    /\ LET id == Head(mac_state.data_requests).callback.id
       IN /\ confirms'[id] # confirms[id]
          /\ confirms'[id][Len(confirms'[id])].status = "Success"

\* C21: when an association completes successfully, the AssociateConfirm
\* carries the short address the coordinator chose, and the PIB then holds
\* that address as macShortAddress, the PAN id and short address of the
\* coordinator, and the channel named in the request (the page is written
\* by the same update of the PHY PIB as the channel).
C21_AssociationApplied ==
    [][AssociationCompletes =>
          LET responder == Head(mac_state.data_requests).callback
              confirm == confirms'[responder.id][Len(confirms'[responder.id])]
          IN /\ confirm.assoc_short_address = AssignedShortAddress
             /\ mac_pib'.short_address = AssignedShortAddress
             /\ mac_pib'.pan_id = responder.request.coord_pan_id
             /\ mac_pib'.coord_short_address
                   = responder.request.coord_short_address
             /\ phy_channel' = responder.request.channel_number]_vars

(***************************************************************************)
(* Indirect transmission                                                   *)
(***************************************************************************)
\* this step is the reception of a DataRequest
ReceivesDataRequest ==
    rx_count' = rx_count + 1 /\ last_rx'.type = "DataRequest"

\* the frames handed to the PHY in reply, after the acknowledgement of the
\* request if it asked for one
Reply ==
    IF last_rx'.ack_request /\ phy_sends' # <<>> /\ phy_sends'[1] = "Ack"
    THEN Tail(phy_sends') ELSE phy_sends'

\* the pending AssociationResponse is taken from the table and sent with an
\* acknowledgement request, for which the engine waits; a send that fails
\* with ChannelAccessFailure puts it back
PendingDataSent ==
    /\ Reply = <<"AssociationResponse">>
    /\ last_rx'.ack_request => phy_sends'[1] = "Ack"
    /\ IF last_rx'.result = "ChannelAccessFailure"
       THEN mac_state'.pending_data = mac_state.pending_data /\ now' = now
       ELSE /\ mac_state'.pending_data = mac_state.pending_data - 1
            /\ last_rx'.result \in {"Success", "NoAck"}
                  => now' = now + TURNAROUND_TIME + AckWaitSymbols

\* an empty data frame is sent, with no acknowledgement request
EmptyDataSent ==
    /\ Reply = <<"Data">>
    /\ mac_state'.pending_data = 0
    /\ now' = now

\* C22 as stated: on a DataRequest the pending data of the device is taken
\* and sent as an AssociationResponse with an acknowledgement request, each
\* pending response once; with nothing pending an empty data frame goes out.
C22_PendingDataOnRequest ==
    [][ReceivesDataRequest =>
          IF mac_state.pending_data > 0
          THEN PendingDataSent ELSE EmptyDataSent]_vars

\* C22: a DataRequest received while no scan is in progress is answered
\* with the pending AssociationResponse of the device, taken from the table
\* and sent with an acknowledgement request, or with an empty data frame
\* when nothing is pending; during a scan nothing is taken and nothing sent.
C22_PendingDataOutsideScan ==
    [][ReceivesDataRequest =>
          IF mac_state.current_scan_process.active
          THEN phy_sends' = <<>> /\ mac_state' = mac_state
          ELSE IF mac_state.pending_data > 0
          THEN PendingDataSent ELSE EmptyDataSent]_vars

\* a DataRequest has been answered with the pending AssociationResponse,
\* which has been acknowledged and is no longer pending
C22_Witness ==
    /\ last_rx.type = "DataRequest"
    /\ last_rx.result = "Success"
    /\ phy_sends # <<>>
    /\ phy_sends[Len(phy_sends)] = "AssociationResponse"
    /\ mac_state.pending_data = 0
    /\ engine = "running"

(***************************************************************************)
(* The lifetime of an indirect indication                                  *)
(***************************************************************************)
\* slot i holds an indication whose response is awaited
Awaited(i) == indirect_indications[i].future = "Pending"

\* the step ends the wait of slot i: the response is delivered to the engine
\* or the entry expires
WaitEnds(i) == Awaited(i) /\ indirect_indications'[i].future # "Pending"

\* C23: an indirect-indication entry exists from its AssociateIndication
\* until the response of the upper layer is delivered to the engine or
\* macResponseWaitTime * aBaseSuperframeDuration symbols have passed; after
\* either event the slot of the entry is empty and can be used again.
C23_SlotFreedAfterEitherEvent ==
    [][\A i \in DOMAIN indirect_indications :
          WaitEnds(i) => is_empty(indirect_indications'[i])]_vars

(***************************************************************************)
(* An AssociateRequest on an associated device                             *)
(***************************************************************************)
\* the engine takes an AssociateRequest while macPanId is not the broadcast
\* PAN id
AssociateWhileAssociated ==
    /\ requests # <<>>
    /\ Head(requests).request.kind = "Associate"
    /\ requests' = Tail(requests)
    /\ mac_pib.pan_id # BROADCAST

\* C24: an AssociateRequest taken while macPanId is not the broadcast PAN id
\* is confirmed with AlreadyAssociated; no AssociationRequest frame is handed
\* to the PHY, no data request is scheduled, and the PIB and the channel are
\* left as they were.
C24_AlreadyAssociated ==
    [][AssociateWhileAssociated =>
          LET id == Head(requests).id IN
          /\ confirms'[id] = Append(confirms[id],
                [status |-> "AlreadyAssociated",
                 assoc_short_address |-> BROADCAST])
          /\ assoc_log'[id].request_result = "None"
          /\ phy_sends' = <<>>
          /\ mac_state'.data_requests = mac_state.data_requests
          /\ mac_pib' = mac_pib
          /\ phy_channel' = phy_channel]_vars

\* an AssociateRequest has been refused on a device that a SetRequest or a
\* StartRequest gave a PAN id
C24_Witness ==
    /\ mac_pib.pan_id # BROADCAST
    /\ \E id \in DOMAIN confirms :
          /\ confirms[id] # <<>>
          /\ confirms[id][1].status = "AlreadyAssociated"
          /\ assoc_log[id].request_result = "None"

(***************************************************************************)
(* SetRequests that are refused                                            *)
(***************************************************************************)
\* the engine handles the SetRequest at the head of the request channel
SetHandled ==
    /\ requests # <<>>
    /\ Head(requests).request.kind = "Set"
    /\ requests' = Tail(requests)

\* the status of the confirm this step gives to the request it handles
SetStatus == confirms'[Head(requests).id][1].status

NamesReadOnly ==
    Head(requests).request.pib_attribute \in PhyReadOnly \cup MacReadOnly

PibUnchanged == mac_pib' = mac_pib /\ phy_channel' = phy_channel

\* C25 as stated: a SetRequest that names a read-only attribute of the PHY
\* or of the MAC is confirmed with ReadOnly, whatever its value, and the PIB
\* is unchanged.
C25_ReadOnlyAlways ==
    [][(SetHandled /\ NamesReadOnly) =>
          SetStatus = "ReadOnly" /\ PibUnchanged]_vars

\* C25: a SetRequest that names a read-only attribute of the PHY or of the
\* MAC is confirmed with ReadOnly, whatever its value, or with PhyError when
\* the PHY fails the access to its PIB, and the PIB is unchanged in both
\* cases.
C25_ReadOnly ==
    [][(SetHandled /\ NamesReadOnly) =>
          SetStatus \in {"ReadOnly", "PhyError"} /\ PibUnchanged]_vars

\* the set of a read-only attribute of the PHY and of one of the MAC have
\* been confirmed with ReadOnly
C25_Witness ==
    /\ confirms[0] = <<[status |-> "ReadOnly",
                        pib_attribute |-> "phyChannelsSupported"]>>
    /\ confirms[1] = <<[status |-> "ReadOnly",
                        pib_attribute |-> "macTimestampSupported"]>>
    /\ mac_pib = dummy_new

\* the value of the request at the head of the channel is outside the range
\* of the attribute the request names
OutsideRange ==
    LET set_request == Head(requests).request
        v == set_request.value
    IN
    \/ set_request.pib_attribute = "macMaxBE" /\ (v < 3 \/ v > 8)
    \/ set_request.pib_attribute = "macMaxCSMABackoffs" /\ v > 5
    \/ set_request.pib_attribute = "macMaxFrameRetries" /\ v > 7
    \/ set_request.pib_attribute = "macMinBE" /\ v > mac_pib.max_be
    \/ set_request.pib_attribute = "macResponseWaitTime"
            /\ (v < 2 \/ v > 64)

\* C26 as stated: a SetRequest for macMaxBE, macMaxCSMABackoffs,
\* macMaxFrameRetries, macMinBE or macResponseWaitTime with a value outside
\* the range of the attribute is confirmed with InvalidParameter and the
\* stored value is unchanged.
C26_InvalidParameterAlways ==
    [][(SetHandled /\ OutsideRange) =>
          SetStatus = "InvalidParameter" /\ PibUnchanged]_vars

\* C26: a SetRequest for macMaxBE, macMaxCSMABackoffs, macMaxFrameRetries,
\* macMinBE or macResponseWaitTime with a value outside the range of the
\* attribute is confirmed with InvalidParameter, or with PhyError when the
\* PHY fails the access to its PIB, and the stored value is unchanged in
\* both cases.
C26_InvalidParameter ==
    [][(SetHandled /\ OutsideRange) =>
          SetStatus \in {"InvalidParameter", "PhyError"} /\ PibUnchanged]_vars

\* macMaxBE has been set to 8 and the set of macMinBE that followed, with a
\* value above it, has been refused
C26_Witness ==
    /\ confirms[0] = <<[status |-> "Success", pib_attribute |-> "macMaxBE"]>>
    /\ confirms[1] = <<[status |-> "InvalidParameter",
                        pib_attribute |-> "macMinBE"]>>
    /\ mac_pib.max_be = 8
    /\ mac_pib.min_be = 0

(***************************************************************************)
(* The reset                                                               *)
(***************************************************************************)
\* the engine handles a ResetRequest with set_default_pib = true
ResetHandled ==
    /\ requests # <<>>
    /\ Head(requests).request.kind = "Reset"
    /\ Head(requests).request.set_default_pib
    /\ requests' = Tail(requests)

ResetStatus == confirms'[Head(requests).id][1].status

\* the MAC state of MacState::new
StateIsNew(ms) ==
    /\ ms.beacon_mode = "Off"
    /\ ~ms.is_pan_coordinator
    /\ ~ms.current_scan_process.active
    /\ ms.scheduled_broadcasts = <<>>
    /\ ms.data_requests = <<>>

\* the default values of the attributes of the MAC PIB; macBSN is random
PibIsDefault(pib) ==
    /\ pib.pan_id = BROADCAST
    /\ pib.short_address = BROADCAST
    /\ pib.coord_short_address = BROADCAST
    /\ pib.auto_request
    /\ pib.beacon_order = ON_DEMAND
    /\ pib.superframe_order = ON_DEMAND
    /\ pib.response_wait_time = 32
    /\ pib.max_be = 5
    /\ pib.max_csma_backoffs = 4
    /\ pib.max_frame_retries = 3
    /\ pib.min_be = 3
    /\ pib.beacon_tx_time = 0

\* C27 as stated: once a ResetRequest with set_default_pib = true is
\* confirmed, the MAC PIB and the MAC state are those the engine started
\* with, every attribute of the PIB has its default value, the beacon mode is
\* Off, the device is no PAN coordinator, no scan is in progress and the
\* scheduler is empty.
C27_ResetToFreshEngine ==
    [][ResetHandled =>
          /\ [mac_pib' EXCEPT !.bsn = 0] = dummy_new
          /\ PibIsDefault(mac_pib')
          /\ StateIsNew(mac_state')]_vars

\* C27: once a ResetRequest with set_default_pib = true is confirmed with
\* Success, every attribute of the MAC PIB has its default value, the beacon
\* mode is Off, the device is no PAN coordinator, no scan is in progress and
\* the scheduler is empty; a reset that is confirmed with an error leaves
\* the PIB and the MAC state as they were.
C27_ResetToDefaults ==
    [][ResetHandled =>
          IF ResetStatus = "Success"
          THEN PibIsDefault(mac_pib') /\ StateIsNew(mac_state')
          ELSE mac_pib' = mac_pib /\ mac_state' = mac_state]_vars

\* a PAN coordinator has been reset: the StartRequest and then the
\* ResetRequest were confirmed with Success
C27_Witness ==
    /\ confirms[0] # <<>>
    /\ confirms[0][1].status = "Success"
    /\ confirms[1] = <<[status |-> "Success"]>>
    /\ phy_channel = 0
    /\ PibIsDefault(mac_pib)
    /\ StateIsNew(mac_state)

(***************************************************************************)
(* The mailbox: order of delivery, dropped futures                         *)
(***************************************************************************)
\* C28: the consumer receives the requests in the order in which they were
\* enqueued: a request that is enqueued goes behind the requests that are in
\* the channel, and the request the consumer receives is the one at the
\* front, the one that has been in the channel longest.
C28_EnqueueOrder ==
    [][/\ Len(rr'.requests) > Len(rr.requests) =>
            \E id \in RRIds : rr'.requests = Append(rr.requests, id)
       /\ rr'.taken # rr.taken /\ rr'.taken \ rr.taken # {} =>
            /\ rr.requests # <<>>
            /\ rr'.taken = rr.taken \cup {Head(rr.requests)}
            /\ rr'.requests = Tail(rr.requests)]_vars

\* request 1 was enqueued before requests 0 and 2 and is the one the
\* consumer has received
C28_Witness ==
    /\ rr.taken = {1}
    /\ rr.requests = <<0, 2>>
    /\ rr.responded[0] = NoResponse

\* this step passes a response to respond for an id whose future has been
\* dropped
RespondsToDropped(id) ==
    /\ rr.futures[id] = "dropped"
    /\ rr.responded[id] = NoResponse
    /\ rr'.responded[id] # NoResponse

\* C29: the request of a dropped future that was already in the channel
\* stays there and reaches the consumer; the response then given for its id
\* reaches no future and no waiter and changes nothing for the other
\* requests, and every future that resolves still holds the response given
\* for its own id.
C29_DroppedResponseDiscarded ==
    [][/\ \A id \in RRIds :
            /\ (rr.futures[id] \in {"created", "send_pending", "sent"}
                    /\ rr'.futures[id] = "dropped") =>
                  rr'.requests = rr.requests
            /\ RespondsToDropped(id) =>
                  /\ rr'.waiters = rr.waiters
                  /\ rr'.waiter_value = rr.waiter_value
                  /\ rr'.results = rr.results
                  /\ rr'.futures = rr.futures
       /\ \A id \in RRIds :
            rr'.futures[id] = "done" =>
                  /\ rr'.responded[id] # NoResponse
                  /\ rr'.results[id] = rr'.responded[id]]_vars

\* the request of a dropped future has reached the consumer and has been
\* answered, and a request made after it has resolved with its own response
C29_Witness ==
    /\ rr.futures[0] = "dropped"
    /\ 0 \in rr.discarded
    /\ rr.responded[0] = "b"
    /\ rr.futures[1] = "done"
    /\ rr.results[1] = "a"
    /\ rr.responded[1] = "a"

(***************************************************************************)
(* Delivery by the aether                                                  *)
(***************************************************************************)
\* this step is a send of node from
SendsFrom(from) == aether'.last_from = from

\* the step puts one more packet in the antenna of the node
Delivered(n) == aether'.nodes[n].antenna = aether.nodes[n].antenna + 1

AntennaUnchanged(n) == aether'.nodes[n].antenna = aether.nodes[n].antenna

\* C30 as stated: a send delivers a copy of the packet to every node other
\* than the sender whose rx_enable is true at the time of the send, and to
\* no other node (a node whose radio no longer exists is not counted).
C30_EveryListener ==
    [][\A from \in NodeIds : SendsFrom(from) =>
          \A n \in NodeIds :
             IF n # from /\ aether.nodes[n].rx_enable /\ aether.nodes[n].radio
             THEN Delivered(n) ELSE AntennaUnchanged(n)]_vars

\* C30: a send delivers a copy of the packet to every node other than the
\* sender whose rx_enable is true at the time of the send, whose radio
\* still exists and whose antenna does not already hold ANTENNA_CAPACITY
\* packets, and to no other node: not to the sender, and not to a node that
\* does not listen at that time, which gets nothing when it listens later.
C30_ListenersWithRoom ==
    [][/\ \A from \in NodeIds : SendsFrom(from) =>
            \A n \in NodeIds :
               IF /\ n # from
                  /\ aether.nodes[n].rx_enable
                  /\ aether.nodes[n].radio
                  /\ aether.nodes[n].antenna < ANTENNA_CAPACITY
               THEN Delivered(n) ELSE AntennaUnchanged(n)
       /\ aether'.last_from = 0 =>
            \A n \in NodeIds :
               aether'.nodes[n].antenna <= aether.nodes[n].antenna]_vars

\* node 1, which listens, has sent a packet: node 2, which listens, has it,
\* node 3, which does not, has nothing, and neither has node 1
C30_Witness ==
    /\ aether.last_from = 1
    /\ aether.nodes[1].rx_enable /\ aether.nodes[1].antenna = 0
    /\ aether.nodes[2].rx_enable /\ aether.nodes[2].antenna = 1
    /\ ~aether.nodes[3].rx_enable /\ aether.nodes[3].antenna = 0
    /\ \A n \in NodeIds : aether.nodes[n].radio

(***************************************************************************)
(* When a scheduled broadcast is transmitted                               *)
(***************************************************************************)
\* the PAN is not beacon-enabled: no beacon interval is defined and no
\* beacon is sent at a superframe start
NotBeaconEnabled ==
    mac_pib.beacon_order = ON_DEMAND /\ mac_state.beacon_mode # "OnAutonomous"

\* C31: a broadcast message handed to the message scheduler is eventually
\* transmitted, right after the next beacon when the PAN is beacon-enabled
\* and immediately when it is not: when the handler that scheduled it has
\* returned on a PAN that is not beacon-enabled, the broadcast has been
\* taken from the queue and sent.
C31_SentImmediately ==
    (engine = "running" /\ NotBeaconEnabled)
        => mac_state.scheduled_broadcasts = <<>>

(***************************************************************************)
(* No beacon while a scan is in progress                                   *)
(***************************************************************************)
\* this step hands a beacon to the PHY
HandsBeaconToPhy ==
    \/ beacon_log'.attempt # beacon_log.attempt
    \/ beacon_log'.last # beacon_log.last
    \/ /\ phy_sends' # phy_sends
       /\ \E i \in 1..Len(phy_sends') : phy_sends'[i] = "Beacon"

\* C32: while a scan is in progress on a device, the device sends out no
\* beacon: neither a periodic beacon at its own superframe start nor a
\* beacon in reply to a received BeaconRequest.
C32_NoBeaconDuringScan ==
    [][mac_state.current_scan_process.active => ~HandsBeaconToPhy]_vars

\* a PAN coordinator with macBeaconOrder OnDemand, which answers beacon
\* requests, is scanning and has just received a BeaconRequest: nothing
\* was sent
C32_Witness ==
    /\ mac_state.current_scan_process.active
    /\ mac_state.is_pan_coordinator
    /\ mac_pib.beacon_order = ON_DEMAND
    /\ last_rx.type = "BeaconRequest"
    /\ phy_sends = <<>>
    /\ engine = "running"

\* a beaconing PAN coordinator is scanning and its superframe start has
\* passed without a beacon
C32_MissedStart ==
    /\ mac_state.current_scan_process.active
    /\ mac_state.beacon_mode = "OnAutonomous"
    /\ beacon_log.missed >= 1

(***************************************************************************)
(* Frames received during a scan                                           *)
(***************************************************************************)
\* this step is the reception of a frame that is not a beacon
ReceivesNonBeacon ==
    rx_count' = rx_count + 1 /\ last_rx'.type # "Beacon"

\* the frame leaves no trace: nothing is handed to the PHY, the engine
\* neither waits for the upper layer nor confirms anything, the PIB and the
\* MAC state are as before and no indirect indication is added
FrameRejected ==
    /\ phy_sends' = <<>>
    /\ engine' = engine
    /\ confirms' = confirms
    /\ mac_pib' = mac_pib
    /\ mac_state' = mac_state
    /\ phy_channel' = phy_channel
    /\ now' = now
    /\ \A i \in DOMAIN indirect_indications :
          indirect_indications'[i] \in {indirect_indications[i], EmptySlot}

\* C33: during a scan, all non-beacon frames are rejected: a received frame
\* that is not a beacon produces no acknowledgement (even when it requests
\* one), no indication to the upper layer, no follow-up event and no change
\* of MAC state.
C33_NonBeaconRejected ==
    [][(mac_state.current_scan_process.active /\ ReceivesNonBeacon)
          => FrameRejected]_vars

\* a DataRequest that asks for an acknowledgement has just been received
\* during a scan, and nothing was sent
C33_Witness ==
    /\ mac_state.current_scan_process.active
    /\ last_rx.type = "DataRequest"
    /\ last_rx.ack_request
    /\ phy_sends = <<>>
    /\ engine = "running"

(***************************************************************************)
(* How long delay_duration waits                                           *)
(***************************************************************************)
\* the durations the engine hands to delay_duration while it waits for its
\* next event: until the end of the channel scan, until the data request is
\* to be planned, and until the beacon is to be planned
DelayDurations ==
    (IF mac_state.current_scan_process.active
     THEN {mac_state.current_scan_process.end_time - loop_start} ELSE {})
    \cup (IF mac_state.data_requests # <<>>
          THEN {mac_state.data_requests[1].timestamp - loop_start
                    - DATA_REQUEST_PLANNING_HEADROOM}
          ELSE {})
    \cup (IF Beaconing
          THEN {BeaconTimeout - BEACON_PLANNING_HEADROOM} ELSE {})

\* C34: delay_duration(d) for a non-negative duration d waits at least d:
\* the milliseconds it asks the underlying delay to wait add up to no less
\* than d, rounding up to the next whole millisecond when d is not a whole
\* number of milliseconds.
C34_WaitsAtLeast ==
    \A d \in DelayDurations :
        d >= 0 =>
            /\ delay_duration(d) >= d
            /\ delay_duration(d) < d + SymbolsPerMilli
            /\ delay_duration(d) % SymbolsPerMilli = 0

(***************************************************************************)
(* The beacon mode and macBeaconOrder                                      *)
(***************************************************************************)
\* C35: in every state in which the engine waits for its next event, the
\* beacon mode and macBeaconOrder agree: the beacon mode is Off exactly
\* when macBeaconOrder is OnDemand, for every sequence of Start, Set, Reset
\* and Scan requests including failed ones, so that the engine never
\* reaches the panics on an inconsistent combination.
C35_ModeAgreesWithOrder ==
    engine = "running" =>
        ((mac_state.beacon_mode = "Off") <=> (mac_pib.beacon_order = ON_DEMAND))

(***************************************************************************)
(* The active superframe and macSuperframeOrder                            *)
(***************************************************************************)
\* C36: whenever own_superframe_active is true, macSuperframeOrder is not
\* Inactive, so that the end of the own superframe can always be computed;
\* this holds when Start, Set or Reset requests are processed while a
\* superframe is active.
C36_ActiveSuperframeHasOrder ==
    (engine = "running" /\ mac_state.own_superframe_active)
        => mac_pib.superframe_order # ON_DEMAND

(***************************************************************************)
(* The backoff exponents                                                   *)
(***************************************************************************)
\* C37: in every reachable PIB state macMinBE <= macMaxBE, for every
\* sequence of successful and rejected Set requests on macMinBE and
\* macMaxBE, so that the computation of macMaxFrameTotalWaitTime never
\* subtracts a larger exponent from a smaller one.
C37_MinBeAtMostMaxBe == mac_pib.min_be <= mac_pib.max_be

(***************************************************************************)
(* Set followed by Get                                                     *)
(***************************************************************************)
\* the engine handles the GetRequest at the head of the request channel
GetHandled ==
    /\ requests # <<>>
    /\ Head(requests).request.kind = "Get"
    /\ requests' = Tail(requests)

\* this step confirms the request it handles with Success
ConfirmedWithSuccess ==
    LET given == confirms'[Head(requests).id] IN
    given # <<>> /\ given[1].status = "Success"

\* this step confirms a SetRequest for the attribute with the value with
\* Success
SetSucceeds(attribute, v) ==
    /\ SetHandled
    /\ Head(requests).request.pib_attribute = attribute
    /\ Head(requests).request.value = v
    /\ ConfirmedWithSuccess

\* the engine handles a ResetRequest or a SetRequest for the attribute
WritesOrResets(attribute) ==
    /\ requests # <<>>
    /\ requests' = Tail(requests)
    /\ \/ Head(requests).request.kind = "Reset"
       \/ /\ Head(requests).request.kind = "Set"
          /\ Head(requests).request.pib_attribute = attribute

\* what a GetRequest for the attribute returns in the PIB state
ReadBack(attribute, pib, channel) ==
    get_pib_value(attribute, pib, channel).value

\* for each of the attributes: the value a successful set leaves is the
\* value a get returns, a step that neither writes the attribute nor resets
\* the PIB leaves that value alone, and the GetConfirm carries it
SetThenGet(attributes) ==
    \A a \in attributes :
       /\ \A v \in SetValues(a) :
             SetSucceeds(a, v) => ReadBack(a, mac_pib', phy_channel') = v
       /\ ~WritesOrResets(a) =>
             ReadBack(a, mac_pib', phy_channel') = ReadBack(a, mac_pib, phy_channel)
       /\ (GetHandled /\ Head(requests).request.pib_attribute = a
              /\ confirms'[Head(requests).id] # <<>>)
             => confirms'[Head(requests).id][1] =
                   [status |-> "Success", pib_attribute |-> a,
                    value |-> ReadBack(a, mac_pib, phy_channel)]

\* C38 as stated: for every writable PIB attribute, after a SetRequest with
\* a value v is confirmed with Success, a GetRequest for the same attribute
\* returns v, until the attribute is written again or the PIB is reset.
C38_GetReturnsSet == [][SetThenGet(PibAttributes)]_vars

\* C38: for every writable PIB attribute other than macBattLifeExtPeriods
\* and macMaxFrameTotalWaitTime, after a SetRequest with a value v is
\* confirmed with Success, a GetRequest for the same attribute returns v,
\* until the attribute is written again or the PIB is reset.
C38_GetReturnsStored == [][SetThenGet(PibAttributes \ MacIgnored)]_vars

\* macPANId has been set to 1 and the get that followed returned 1
C38_Witness ==
    /\ confirms[0] = <<[status |-> "Success", pib_attribute |-> "macPANId"]>>
    /\ confirms[1] = <<[status |-> "Success", pib_attribute |-> "macPANId",
                        value |-> 1]>>

(***************************************************************************)
(* An association that fails                                               *)
(***************************************************************************)
\* this step gives the AssociateRequest with the id an AssociateConfirm with
\* one of the failure statuses of the exchange
AssociationFails(id) ==
    /\ Len(confirms'[id]) = Len(confirms[id]) + 1
    /\ LET confirm == confirms'[id][Len(confirms'[id])] IN
       /\ "assoc_short_address" \in DOMAIN confirm
       /\ confirm.status \in {"ChannelAccessFailure", "PhyError", "NoAck",
                              "NoData"}

\* C39: if an AssociateRequest is confirmed with a failure status
\* (ChannelAccessFailure, PhyError, NoAck or NoData), the device is left
\* unassociated, with macPanId still the broadcast PAN id, so that a later
\* AssociateRequest is attempted again instead of being rejected with
\* AlreadyAssociated.
C39_UnassociatedAfterFailure ==
    [][\A id \in DOMAIN confirms :
          AssociationFails(id) => mac_pib'.pan_id = BROADCAST]_vars

(***************************************************************************)
(* Progress while an indication is unanswered                              *)
(***************************************************************************)
\* the upper layer has not answered an AssociateIndication
IndirectAwaited == \E i \in DOMAIN indirect_indications : Awaited(i)

\* the upper layer has not answered an indication of either kind
Unanswered == engine = "blocked_indication" \/ IndirectAwaited

ScanRunning == mac_state.current_scan_process.active

\* C40 as stated: while an indication raised by the engine (for example a
\* BeaconNotifyIndication during a scan) has not yet been taken or answered
\* by the upper layer, the engine still makes progress: it takes the SAP
\* request that waits in the channel, and a running scan reaches its
\* confirm.
C40_ProgressWhileUnanswered ==
    /\ (Unanswered /\ ScanRunning) ~> ~ScanRunning
    /\ (Unanswered /\ requests # <<>>) ~> (requests = <<>>)

\* C40: while an AssociateIndication, which the engine keeps in its
\* indirect indication collection, has not yet been answered by the upper
\* layer, the engine still makes progress: it takes the SAP request that
\* waits in the channel and a running scan reaches its confirm, unless the
\* engine comes to wait for the answer to a BeaconNotifyIndication, which
\* it awaits in place.
C40_ProgressWhileIndirect ==
    /\ (IndirectAwaited /\ engine = "running" /\ ScanRunning)
          ~> (~ScanRunning \/ engine = "blocked_indication")
    /\ (IndirectAwaited /\ engine = "running" /\ requests # <<>>)
          ~> (requests = <<>> \/ engine = "blocked_indication")

\* a scan has been confirmed while the AssociateIndication raised before it
\* was still unanswered
C40_Witness ==
    /\ IndirectAwaited
    /\ scan_log.done
    /\ confirms[scan_log.id] # <<>>
    /\ engine = "running"

====
